---- MODULE Spec2Model ----
(***************************************************************************)
(* Verification model of the tsh shape/validation pipeline.                *)
(*                                                                         *)
(* The repository holds several revisions of the shape classes.  The model *)
(* keeps them apart by the field `rev` of a shape:                         *)
(*   "named"    src/src/libs/shapes/abstract-shape.ts (linked chain,       *)
(*              _preValidate)                                              *)
(*   "pipeline" src/unnamed/part_009 lines 187-608 (linked chain,          *)
(*              _pipelineSync, _path)                                      *)
(*   "array"    src/unnamed/part_009 lines 1-186 (array chain, _operate)   *)
(***************************************************************************)
EXTENDS Integers, Sequences, FiniteSets, TLC

VARIABLES shapes, nodes, call

vars == <<shapes, nodes, call>>

(***************************************************************************)
(* Bounds                                                                  *)
(***************************************************************************)
MaxShapes == 3
MaxChain == 3

(***************************************************************************)
(* JavaScript values: tagged records, the tag is compared first.           *)
(***************************************************************************)
Undefined == [t |-> "undefined"]
Null == [t |-> "null"]
Bool(b) == [t |-> "boolean", v |-> b]
Str(s) == [t |-> "string", v |-> s]
Num(n) == [t |-> "number", v |-> n]
Arr(items) == [t |-> "array", v |-> items]
Obj(props) == [t |-> "object", v |-> props]

\* Boolean(value) of JavaScript
Truthy(value) ==
    CASE value.t = "undefined" -> FALSE
      [] value.t = "null" -> FALSE
      [] value.t = "boolean" -> value.v
      [] value.t = "string" -> value.v # ""
      [] value.t = "number" -> value.v # 0
      [] OTHER -> TRUE

(***************************************************************************)
(* Thrown values and errors.  class is the JavaScript class of the thrown  *)
(* value ("string" for a thrown primitive string); extra is the tag of the *)
(* extra object and extraErrors its property `errors`; message is kept     *)
(* where the code puts the place of the failure into it.                   *)
(***************************************************************************)
NoErr ==
    [class |-> "none", code |-> "", path |-> <<>>, details |-> <<>>, errors |-> <<>>,
     extra |-> "none", extraErrors |-> <<>>, message |-> ""]

TshShapeError(code, path, details, extra) ==
    [class |-> "TshShapeError", code |-> code, path |-> path, details |-> details,
     errors |-> <<>>, extra |-> extra, extraErrors |-> <<>>, message |-> ""]

\* new Error(...) / a thrown primitive string / a TypeError raised by the runtime
JsError == [NoErr EXCEPT !.class = "Error"]
JsString == [NoErr EXCEPT !.class = "string"]
JsTypeError == [NoErr EXCEPT !.class = "TypeError"]

\* new AggregateError(errors, message): the children are in .errors, there is no .details
AggregateError(errors) ==
    [class |-> "AggregateError", code |-> "", path |-> <<>>, details |-> <<>>,
     errors |-> errors, extra |-> "none", extraErrors |-> <<>>, message |-> ""]

\* results of internal calls: a returned value or a thrown value
Return(value) == [ok |-> TRUE, value |-> value, err |-> NoErr]
Throw(err) == [ok |-> FALSE, value |-> Undefined, err |-> err]

(***************************************************************************)
(* User-supplied functions (predicates, transforms, coercion functions),   *)
(* by name.                                                                *)
(***************************************************************************)
applyFn(fn, value) ==
    CASE fn = "negate" -> Return(Bool(~Truthy(value)))
      [] fn = "isTrue" -> Return(Bool(value = Bool(TRUE)))
      [] fn = "identity" -> Return(value)
      [] fn = "throwString" -> Throw(JsString)
      [] fn = "throwError" -> Throw(JsError)
      [] fn = "throwShapeError" -> Throw(TshShapeError("CUSTOM", <<>>, <<>>, "none"))
      [] OTHER -> Return(value)

(***************************************************************************)
(* Shapes and the heap of operation nodes.                                 *)
(* A shape is identified by its index in `shapes`; an operation node by    *)
(* its index in `nodes` (0 is null).  The holder {first, last} is owned by *)
(* the shape, the nodes are shared between a shape and its clones.         *)
(***************************************************************************)
AbstractShape(rev, type, coerceFn) ==
    [rev |-> rev, type |-> type, optional |-> FALSE, nullable |-> FALSE,
     default |-> Undefined, coerceFn |-> coerceFn, coerce |-> FALSE,
     first |-> 0, last |-> 0, operations |-> <<>>,
     key |-> type, path |-> <<type>>]

TshOperation(type, fn, code) == [type |-> type, fn |-> fn, code |-> code, next |-> 0]

\* the result of a modifier: the new object graph and the shape it returns
Built(S, N, ret) == [shapes |-> S, nodes |-> N, ret |-> ret]

\* what a call hands back to its caller
Returned(success, value, error) ==
    [threw |-> FALSE, success |-> success, value |-> value, error |-> error]
Threw(error) == [threw |-> TRUE, success |-> FALSE, value |-> Undefined, error |-> error]
NoOutcome == Returned(TRUE, Undefined, NoErr)

(***************************************************************************)
(* Revision "named": src/src/libs/shapes/abstract-shape.ts                 *)
(***************************************************************************)
\* Object.assign(clone, this); clone._operations = { ...this._operations }:
\* the fields and the two node references are copied, no node is copied
_clone(shape) == shape

default(S, N, s, value) ==
    Built(Append(S, [_clone(S[s]) EXCEPT !.default = value]), N, Len(S) + 1)

\* the flag set on the receiver itself, which is also what is returned
optional_inplace(S, N, s) ==
    Built(Append([S EXCEPT ![s].optional = TRUE], [S[s] EXCEPT !.optional = TRUE]), N, Len(S) + 1)

optional(S, N, s) ==
    Built(Append(S, [_clone(S[s]) EXCEPT !.optional = TRUE]), N, Len(S) + 1)

nullable(S, N, s) ==
    Built(Append(S, [_clone(S[s]) EXCEPT !.nullable = TRUE]), N, Len(S) + 1)

\* an _addOperation that links the new node back to the first one
_addOperation_looped(S, N, s, op) ==
    LET clone == _clone(S[s])
        newOp == Len(N) + 1
    IN  IF clone.first = 0
        THEN Built(Append(S, [clone EXCEPT !.first = newOp, !.last = newOp]),
                   Append(N, op), Len(S) + 1)
        ELSE Built(Append(S, [clone EXCEPT !.last = newOp]),
                   Append([N EXCEPT ![clone.last].next = newOp],
                          [op EXCEPT !.next = clone.first]), Len(S) + 1)

_addOperation(S, N, s, op) ==
    LET clone == _clone(S[s])
        newOp == Len(N) + 1
    IN  IF clone.first = 0
        THEN Built(Append(S, [clone EXCEPT !.first = newOp, !.last = newOp]),
                   Append(N, op), Len(S) + 1)
        ELSE Built(Append(S, [clone EXCEPT !.last = newOp]),
                   Append([N EXCEPT ![clone.last].next = newOp], op), Len(S) + 1)

transform(S, N, s, fn) == _addOperation(S, N, s, TshOperation("transform", fn, "TRANSFORM_ERROR"))
transformAsync(S, N, s, fn) ==
    _addOperation(S, N, s, TshOperation("transformAsync", fn, "ASYNC_TRANSFORM_ERROR"))
refine(S, N, s, fn) == _addOperation(S, N, s, TshOperation("refine", fn, "VALIDATION_ERROR"))
refineAsync(S, N, s, fn) ==
    _addOperation(S, N, s, TshOperation("refineAsync", fn, "ASYNC_VALIDATION_ERROR"))

_createMissingError(shape) == TshShapeError("REQUIRED", <<>>, <<>>, "none")

\* extra: { originalError: error }, kept as the class of the original
_createUnexpectedError(error) == TshShapeError("UNEXPECTED_ERROR", <<>>, <<>>, error.class)

_createError(op) == TshShapeError(op.code, <<>>, <<>>, "none")

(***************************************************************************)
(* JavaScript strings and numbers, for the coercion functions.  A string   *)
(* value holds its text; the functions on text work on its characters.     *)
(***************************************************************************)
\* NaN: a number that is equal to nothing
NaN == [t |-> "number", v |-> 0, nan |-> TRUE]
isNaN(value) == "nan" \in DOMAIN value

\* the characters of a text of the model; a text that is not listed is a
\* single character
Spelling(text) ==
    CASE text = "" -> <<>>
      [] text = "yes" -> <<"y", "e", "s">>
      [] text = "no" -> <<"n", "o">>
      [] text = "true" -> <<"t", "r", "u", "e">>
      [] text = "false" -> <<"f", "a", "l", "s", "e">>
      [] text = " YES " -> <<" ", "Y", "E", "S", " ">>
      [] text = "No" -> <<"N", "o">>
      [] text = "abc" -> <<"a", "b", "c">>
      [] text = "42" -> <<"4", "2">>
      [] text = "-1" -> <<"-", "1">>
      [] text = " 0 " -> <<" ", "0", " ">>
      [] text = "00" -> <<"0", "0">>
      [] OTHER -> <<text>>

\* String.prototype.toLowerCase, on the capital letters of the model's texts
toLowerCase(chars) ==
    [i \in DOMAIN chars |->
        CASE chars[i] = "Y" -> "y"
          [] chars[i] = "E" -> "e"
          [] chars[i] = "S" -> "s"
          [] chars[i] = "N" -> "n"
          [] OTHER -> chars[i]]

\* String.prototype.trim: white space is dropped at both ends
RECURSIVE trimStart(_)
trimStart(chars) ==
    IF chars # <<>> /\ Head(chars) = " " THEN trimStart(Tail(chars)) ELSE chars

RECURSIVE trimEnd(_)
trimEnd(chars) ==
    IF chars # <<>> /\ chars[Len(chars)] = " "
    THEN trimEnd(SubSeq(chars, 1, Len(chars) - 1)) ELSE chars

trim(chars) == trimEnd(trimStart(chars))

DigitValues ==
    [c \in {"0", "1", "2", "3", "4", "5", "6", "7", "8", "9"} |->
        CASE c = "0" -> 0 [] c = "1" -> 1 [] c = "2" -> 2 [] c = "3" -> 3 [] c = "4" -> 4
          [] c = "5" -> 5 [] c = "6" -> 6 [] c = "7" -> 7 [] c = "8" -> 8 [] c = "9" -> 9]

\* the value of a run of decimal digits
RECURSIVE Digits(_)
Digits(chars) ==
    IF chars = <<>> THEN 0
    ELSE 10 * Digits(SubSeq(chars, 1, Len(chars) - 1)) + DigitValues[chars[Len(chars)]]

\* Number(string): white space is trimmed, the empty text is 0, an optional
\* sign and decimal digits are their value, any other text of the model (none
\* holds a fraction, an exponent, a radix prefix or Infinity) is NaN
Number(chars) ==
    LET text == trim(chars)
        signed == text # <<>> /\ Head(text) \in {"-", "+"}
        digits == IF signed THEN Tail(text) ELSE text
    IN  IF text = <<>> THEN Num(0)
        ELSE IF digits # <<>> /\ \A i \in DOMAIN digits : digits[i] \in DOMAIN DigitValues
        THEN Num(IF signed /\ Head(text) = "-" THEN 0 - Digits(digits) ELSE Digits(digits))
        ELSE NaN

\* BooleanShape coerceFn, src/unnamed/part_006 lines 31-60 (the same
\* conversion is written in BooleanShape.parse, src/unnamed/part_007 lines 18-48)
booleanCoerceFn(coerce, value) ==
    IF ~coerce THEN value
    ELSE CASE value.t = "string" ->
                LET normalized == trim(toLowerCase(Spelling(value.v)))
                IN  IF normalized \in {Spelling("yes"), Spelling("y"), Spelling("s"),
                                       Spelling("1"), Spelling("true")}
                    THEN Bool(TRUE)
                    ELSE IF normalized \in {Spelling("no"), Spelling("n"), Spelling("0"),
                                            Spelling("false")}
                    THEN Bool(FALSE)
                    ELSE IF ~isNaN(Number(normalized)) THEN Bool(Number(normalized).v # 0)
                    ELSE Bool(Truthy(value))
           [] value.t = "number" -> Bool(~isNaN(value) /\ value.v # 0)
           [] value.t \in {"null", "undefined"} -> Bool(FALSE)
           [] OTHER -> Bool(Truthy(value))

_coerceValue(shape, value) ==
    IF shape.coerceFn = "none" THEN Return(value)
    ELSE IF shape.coerceFn = "boolean" THEN Return(booleanCoerceFn(shape.coerce, value))
    ELSE LET r == applyFn(shape.coerceFn, value)
         IN  IF r.ok THEN Return(r.value) ELSE Throw(_createUnexpectedError(r.err))

\* the sync validator handed to the constructor, defined with the shape
\* classes below; the validator of a RecordShape calls safeParse of its
\* children, which runs _preValidate and their validator in turn
RECURSIVE _validateSync(_, _, _)
RECURSIVE _preValidate(_, _, _)
RECURSIVE safeParse(_, _, _)
RECURSIVE RecordShape_sync(_, _, _)

\* {value} | {error} | {} as tag "value" | "error" | "none"
_executeOperation(op, value) ==
    LET r == applyFn(op.fn, value)
    IN  CASE op.type = "transform" ->
                IF r.ok THEN [tag |-> "value", value |-> r.value, err |-> NoErr]
                ELSE [tag |-> "error", value |-> Undefined, err |-> _createUnexpectedError(r.err)]
          [] op.type = "refine" ->
                IF ~r.ok
                THEN [tag |-> "error", value |-> Undefined, err |-> _createUnexpectedError(r.err)]
                ELSE IF ~Truthy(r.value)
                THEN [tag |-> "error", value |-> Undefined, err |-> _createError(op)]
                ELSE [tag |-> "none", value |-> Undefined, err |-> NoErr]
          [] OTHER -> [tag |-> "none", value |-> Undefined, err |-> NoErr]

\* the while (op) loop, from node `op` on with the current value
RECURSIVE _executeOperationsFrom(_, _, _)
_executeOperationsFrom(N, op, currentValue) ==
    IF op = 0 THEN Return(currentValue)
    ELSE LET result == _executeOperation(N[op], currentValue)
         IN  IF result.tag = "error" THEN Throw(result.err)
             ELSE _executeOperationsFrom(N, N[op].next,
                      IF result.tag = "value" THEN result.value ELSE currentValue)

_executeOperations(shape, N, value) == _executeOperationsFrom(N, shape.first, value)

_preValidate(shape, N, input) ==
    LET coerced == _coerceValue(shape, input)
        value == coerced.value
    IN  IF ~coerced.ok THEN Throw(coerced.err)
        ELSE IF value = Undefined
        THEN IF shape.optional
             THEN Return(IF shape.default \in {Undefined, Null} THEN Undefined ELSE shape.default)
             ELSE Throw(_createMissingError(shape))
        ELSE IF value = Null /\ shape.nullable THEN Return(Null)
        ELSE LET basicError == _validateSync(shape, N, value)
             IN  IF basicError # NoErr THEN Throw(basicError)
                 ELSE _executeOperations(shape, N, value)

parse(shape, N, value) ==
    LET result == _preValidate(shape, N, value)
    IN  IF result.ok THEN Returned(TRUE, result.value, NoErr) ELSE Threw(result.err)

\* a failure reported as a success
_handleError_swallow(error) == Returned(TRUE, Undefined, NoErr)

_handleError(error) ==
    IF error.class = "TshShapeError" THEN Returned(FALSE, Undefined, error)
    ELSE Returned(FALSE, Undefined, _createUnexpectedError(error))

safeParse(shape, N, value) ==
    LET result == _preValidate(shape, N, value)
    IN  IF result.ok THEN Returned(TRUE, result.value, NoErr) ELSE _handleError(result.err)

(***************************************************************************)
(* Shape classes of the revision "named": AnyShape (part_005 lines 15-35), *)
(* BooleanShape (part_006), RecordShape (part_011).                        *)
(***************************************************************************)
\* property names of the objects of the model, in insertion order
PropertyNames == <<"a", "b">>

\* for (const key in input) / Object.keys(input)
ObjectKeys(props) == SelectSeq(PropertyNames, LAMBDA k : k \in DOMAIN props)

\* the property name a value is converted to in result[value] = ...
PropertyKey(value) ==
    CASE value.t = "string" -> value.v
      [] value.t = "boolean" -> IF value.v THEN "true" ELSE "false"
      [] value.t = "undefined" -> "undefined"
      [] value.t = "null" -> "null"
      [] OTHER -> "[object Object]"

RecordShape(_keyShape, _valueShape) ==
    AbstractShape("named", "record", "none")
        @@ [_keyShape |-> _keyShape, _valueShape |-> _valueShape]

\* the for-in loop of the validator over the remaining keys
RECURSIVE RecordShape_forIn(_, _, _, _, _)
RecordShape_forIn(shape, N, input, keys, acc) ==
    IF keys = <<>> THEN acc
    ELSE LET key == Head(keys)
             keyResult == safeParse(shape._keyShape, N, Str(key))
             valueResult == safeParse(shape._valueShape, N, input[key])
         IN  RecordShape_forIn(shape, N, input, Tail(keys),
                 IF ~keyResult.success
                 THEN [acc EXCEPT !.errors = @ \o <<keyResult.error>>]
                 ELSE IF ~valueResult.success
                 THEN [acc EXCEPT !.errors = @ \o <<valueResult.error>>]
                 ELSE [acc EXCEPT !.result =
                          (PropertyKey(keyResult.value) :> valueResult.value) @@ @])

\* the sync validator of RecordShape: the error of its result, NoErr on success
RecordShape_sync(shape, N, value) ==
    IF value = Undefined
    THEN IF shape.default # Undefined \/ shape.optional THEN NoErr
         ELSE TshShapeError("MISSING_VALUE", <<>>, <<>>, "none")
    ELSE IF value = Null
    THEN IF shape.nullable THEN NoErr ELSE TshShapeError("NULL_VALUE", <<>>, <<>>, "none")
    ELSE IF value.t # "object" THEN TshShapeError("NOT_OBJECT", <<>>, <<>>, "none")
    ELSE LET looped == RecordShape_forIn(shape, N, value.v, ObjectKeys(value.v),
                                         [errors |-> <<>>, result |-> <<>>])
             errors == looped.errors
         IN  IF Len(errors) = 0 THEN NoErr
             ELSE IF Len(errors) = 1 THEN errors[1]
             ELSE [TshShapeError("MULTIPLE_ERRORS", <<>>, <<>>, "errors")
                      EXCEPT !.extraErrors = errors]

\* AnyShape always succeeds, BooleanShape tests typeof (part_006 lines 16-30),
\* a bare AbstractShape has no validator
_validateSync(shape, N, value) ==
    CASE shape.type = "boolean" ->
            IF value.t = "boolean" THEN NoErr
            ELSE TshShapeError("NOT_BOOLEAN", <<>>, <<>>, "none")
      [] shape.type = "record" -> RecordShape_sync(shape, N, value)
      [] OTHER -> NoErr

(***************************************************************************)
(* Revision "pipeline": src/unnamed/part_009 lines 187-608.  Its modifiers *)
(* (_clone, _addOperation, default, optional, nullable, refine, ...) build *)
(* the same object graph as the ones above.                                *)
(***************************************************************************)
\* _createMissingError with path: [...this._path]
_createMissingErrorAt(shape) == TshShapeError("REQUIRED", shape.path, <<>>, "none")

_createOperationError(shape, op) == TshShapeError(op.code, shape.path, <<>>, "none")

_validateBasicConstraints(shape, value) ==
    (IF value = Undefined /\ ~shape.optional /\ shape.default = Undefined
     THEN <<_createMissingErrorAt(shape)>> ELSE <<>>)
    \o (IF value = Null /\ ~shape.nullable THEN <<_createMissingErrorAt(shape)>> ELSE <<>>)

_throwCollectedErrors(shape, errors) ==
    IF Len(errors) = 1 THEN Throw(errors[1])
    ELSE Throw(TshShapeError("MULTIPLE_ERRORS", shape.path, errors, "none"))

_mergeWithDefault(shape, value) ==
    IF shape.default = Undefined THEN value
    ELSE IF value = Undefined THEN shape.default
    ELSE IF shape.default.t = "array" /\ value.t = "array"
    THEN Arr(shape.default.v \o value.v)
    ELSE IF shape.default.t = "object" /\ value.t = "object"
    THEN Obj([k \in DOMAIN shape.default.v \cup DOMAIN value.v |->
                 IF k \in DOMAIN value.v THEN value.v[k] ELSE shape.default.v[k]])
    ELSE value

\* error.path = [...]; error.message = ...: a property of a thrown primitive
\* cannot be set (the class body is strict code), the assignment raises a
\* TypeError; an object of any class is returned with the path prefixed
_enhanceError(shape, error) ==
    IF error.class = "string" THEN [ok |-> FALSE, err |-> JsTypeError]
    ELSE [ok |-> TRUE, err |-> [error EXCEPT !.path = shape.path \o @]]

\* primitiveFn handed to the constructor, defined with the shape classes
\* below; the one of an ArrayShape or UnionShape calls safeParse of its
\* children, which runs _pipelineSync and their primitiveFn in turn
RECURSIVE _primitiveFn(_, _, _)
RECURSIVE _pipelineSync(_, _, _)
RECURSIVE safeParse_pipeline(_, _, _)
RECURSIVE ArrayShape_primitiveFn(_, _, _)
RECURSIVE UnionShape_primitiveFn(_, _, _)

\* the body of the try block of the operation loop for one operation
_pipelineOperation(shape, op, currentValue) ==
    LET r == applyFn(op.fn, currentValue)
    IN  CASE op.type = "transform" -> r
          [] op.type = "refine" ->
                IF ~r.ok THEN r
                ELSE IF ~Truthy(r.value) THEN Throw(_createOperationError(shape, op))
                ELSE Return(currentValue)
          [] OTHER -> Throw(TshShapeError("SYNC_ASYNC_MISMATCH", shape.path, <<>>, "none"))

\* while (op) { try {...} catch (error) { throw this._enhanceError(error) } op = op.next }
RECURSIVE _pipelineLoop(_, _, _, _)
_pipelineLoop(shape, N, op, currentValue) ==
    IF op = 0 THEN Return(currentValue)
    ELSE LET r == _pipelineOperation(shape, N[op], currentValue)
         IN  IF ~r.ok THEN Throw(_enhanceError(shape, r.err).err)
             ELSE _pipelineLoop(shape, N, N[op].next, r.value)

_pipelineSync(shape, N, value) ==
    LET errors == _validateBasicConstraints(shape, value)
        coerced == IF shape.coerceFn = "none" THEN Return(value) ELSE applyFn(shape.coerceFn, value)
        finalValue == coerced.value
        primitive == _primitiveFn(shape, N, finalValue)
        looped == _pipelineLoop(shape, N, shape.first, finalValue)
        currentValue == looped.value
    IN  IF Len(errors) > 0 THEN _throwCollectedErrors(shape, errors)
        ELSE IF ~coerced.ok THEN Throw(coerced.err)
        ELSE IF finalValue = Undefined
        THEN IF shape.optional THEN Return(_mergeWithDefault(shape, Undefined))
             ELSE Throw(_createMissingErrorAt(shape))
        ELSE IF finalValue = Null /\ shape.nullable THEN Return(_mergeWithDefault(shape, Null))
        ELSE IF primitive # NoErr THEN Throw(primitive)
        ELSE IF ~looped.ok THEN looped
        ELSE IF currentValue = Undefined
        THEN IF shape.optional THEN Return(_mergeWithDefault(shape, Undefined))
             ELSE Throw(_createMissingErrorAt(shape))
        ELSE IF currentValue = Null /\ shape.nullable THEN Return(_mergeWithDefault(shape, Null))
        ELSE Return(_mergeWithDefault(shape, currentValue))

parse_pipeline(shape, N, value) ==
    LET result == _pipelineSync(shape, N, value)
    IN  IF result.ok THEN Returned(TRUE, result.value, NoErr)
        ELSE Threw(_enhanceError(shape, result.err).err)

safeParse_pipeline(shape, N, value) ==
    LET result == _pipelineSync(shape, N, value)
        enhanced == _enhanceError(shape, result.err)
    IN  IF result.ok THEN Returned(TRUE, result.value, NoErr)
        ELSE IF enhanced.ok THEN Returned(FALSE, Undefined, enhanced.err)
        ELSE Threw(enhanced.err)

(***************************************************************************)
(* Shape classes of the revision "pipeline": EnumShape (enum-shape.ts),    *)
(* ArrayShape (part_010 lines 1-136), UnionShape (union-shape.ts).         *)
(***************************************************************************)
\* values of the EnumShape of the model
EnumValues == {Bool(TRUE)}

\* undefined, as the value of a length constraint
NoLength == -1

ArrayShape(_shape) ==
    AbstractShape("pipeline", "array", "none")
        @@ [_shape |-> _shape, _minLength |-> NoLength, _maxLength |-> NoLength,
            _exactLength |-> NoLength]

UnionShape(candidates) ==
    AbstractShape("pipeline", "union", "none") @@ [shapes |-> candidates]

\* the shape as the callback of withPath sees it: subkey pushed onto _path;
\* the finally block puts the previous path back when the callback is done
withPath(shape, subkey) == [shape EXCEPT !.path = Append(@, subkey)]

\* primitiveFn of ArrayShape: the error of its result (a thrown value of a
\* child's safeParse leaves it the same way), NoErr on success
ArrayShape_primitiveFn(shape, N, value) ==
    LET path == IF shape.key # "abstract" THEN shape.key ELSE shape.type
        itemPath(index) == path \o "[" \o ToString(index - 1) \o "]"
        result(index) ==
            safeParse_pipeline(withPath(shape._shape, itemPath(index)), N, value.v[index])
        indices == [index \in 1..Len(value.v) |-> index]
        thrown == SelectSeq(indices, LAMBDA index : result(index).threw)
        failed == SelectSeq(indices, LAMBDA index : ~result(index).success)
        errors == [k \in 1..Len(failed) |-> [JsError EXCEPT !.message = itemPath(failed[k])]]
        len == Len(value.v)
    IN  IF value.t # "array" THEN [JsError EXCEPT !.message = path]
        ELSE IF Len(thrown) > 0 THEN result(thrown[1]).error
        ELSE IF Len(errors) > 0 THEN AggregateError(errors)
        ELSE IF shape._exactLength # NoLength /\ len # shape._exactLength
        THEN [JsError EXCEPT !.message = path]
        ELSE IF shape._minLength # NoLength /\ len < shape._minLength
        THEN [JsError EXCEPT !.message = path]
        ELSE IF shape._maxLength # NoLength /\ len > shape._maxLength
        THEN [JsError EXCEPT !.message = path]
        ELSE NoErr

\* primitiveFn of UnionShape: NoErr when a candidate's safeParse succeeds.  A
\* result of safeParse of this revision has no property `errors` (and none
\* `value`), nothing is pushed onto the list of the failure
UnionShape_primitiveFn(shape, N, value) ==
    LET result(i) == safeParse_pipeline(shape.shapes[i], N, value)
        indices == [i \in 1..Len(shape.shapes) |-> i]
        decided == SelectSeq(indices, LAMBDA i : result(i).threw \/ result(i).success)
    IN  IF Len(decided) > 0
        THEN IF result(decided[1]).threw THEN result(decided[1]).error ELSE NoErr
        ELSE [TshShapeError("NO_MATCHING_UNION_MEMBER", <<>>, <<>>, "errors")
                 EXCEPT !.extraErrors = <<>>]

\* EnumShape: src/src/libs/shapes/enum-shape.ts lines 12-27; a bare
\* AbstractShape has no primitiveFn
_primitiveFn(shape, N, value) ==
    CASE shape.type = "enum" ->
            IF value \in EnumValues THEN NoErr
            ELSE TshShapeError("INVALID_ENUM_VALUE", <<>>, <<>>, "none")
      [] shape.type = "array" -> ArrayShape_primitiveFn(shape, N, value)
      [] shape.type = "union" -> UnionShape_primitiveFn(shape, N, value)
      [] OTHER -> NoErr

(***************************************************************************)
(* The two entry points of a shape, by the revision of its class.          *)
(***************************************************************************)
parseOf(shape, N, value) ==
    IF shape.rev = "pipeline" THEN parse_pipeline(shape, N, value) ELSE parse(shape, N, value)

safeParseOf(shape, N, value) ==
    IF shape.rev = "pipeline" THEN safeParse_pipeline(shape, N, value)
    ELSE safeParse(shape, N, value)

\* the operations a traversal from first through next visits
RECURSIVE chainFrom(_, _)
chainFrom(N, op) ==
    IF op = 0 THEN <<>>
    ELSE <<[type |-> N[op].type, fn |-> N[op].fn]>> \o chainFrom(N, N[op].next)

chainOf(shape, N) == chainFrom(N, shape.first)

(***************************************************************************)
(* Specification Spec: shapes of the two linked-chain revisions are built  *)
(* by modifier calls and parsed.                                           *)
(***************************************************************************)
Inputs == {Undefined, Null, Bool(TRUE), Str("x")}
\* the values the parse and safeParse steps are called with; the properties
\* below range over Inputs with the entry points as operators
Called == {Bool(TRUE), Str("x")}
Defaults == {Bool(TRUE)}
Transforms == {"negate"}
Predicates == {"isTrue", "throwString"}

\* the shapes a program constructs: AnyShape, BooleanShape, EnumShape and a
\* bare AbstractShape with a user-supplied coercion function
Constructed ==
    { AbstractShape("named", "any", "none"),
      AbstractShape("named", "boolean", "boolean"),
      AbstractShape("pipeline", "enum", "none"),
      AbstractShape("pipeline", "abstract", "throwString") }

Call(op, recv, fn, input, ret, out) ==
    [op |-> op, recv |-> recv, fn |-> fn, input |-> input, ret |-> ret, out |-> out]

Init ==
    /\ shapes \in {<<c>> : c \in Constructed}
    /\ nodes = <<>>
    /\ call = Call("new", 0, "", Undefined, 1, NoOutcome)

Modify(op, s, fn, input, built) ==
    /\ Len(shapes) < MaxShapes
    /\ shapes' = built.shapes
    /\ nodes' = built.nodes
    /\ call' = Call(op, s, fn, input, built.ret, NoOutcome)

Default(s, value) == Modify("default", s, "", value, default(shapes, nodes, s, value))
Optional(s) == Modify("optional", s, "", Undefined, optional(shapes, nodes, s))
Nullable(s) == Modify("nullable", s, "", Undefined, nullable(shapes, nodes, s))
Transform(s, fn) == Modify("transform", s, fn, Undefined, transform(shapes, nodes, s, fn))
TransformAsync(s, fn) ==
    Modify("transformAsync", s, fn, Undefined, transformAsync(shapes, nodes, s, fn))
Refine(s, fn) == Modify("refine", s, fn, Undefined, refine(shapes, nodes, s, fn))
RefineAsync(s, fn) == Modify("refineAsync", s, fn, Undefined, refineAsync(shapes, nodes, s, fn))

Parse(s, value) ==
    /\ call' = Call("parse", s, "", value, 0, parseOf(shapes[s], nodes, value))
    /\ UNCHANGED <<shapes, nodes>>

SafeParse(s, value) ==
    /\ call' = Call("safeParse", s, "", value, 0, safeParseOf(shapes[s], nodes, value))
    /\ UNCHANGED <<shapes, nodes>>

Next ==
    \E s \in 1..Len(shapes) :
        \/ \E value \in Defaults : Default(s, value)
        \/ Optional(s)
        \/ Nullable(s)
        \/ \E fn \in Transforms : Transform(s, fn)
        \/ TransformAsync(s, "negate")
        \/ \E fn \in Predicates : Refine(s, fn)
        \/ RefineAsync(s, "isTrue")
        \/ \E value \in Called : Parse(s, value)
        \/ \E value \in Called : SafeParse(s, value)

Spec == Init /\ [][Next]_vars

(***************************************************************************)
(* Properties of Spec                                                      *)
(***************************************************************************)
IsModifier(op) ==
    op \in {"default", "optional", "nullable", "transform", "transformAsync", "refine", "refineAsync"}

\* C1: a modifier call never changes a shape that existed before the call:
\* every shape runs after the call exactly the operations it ran before, and
\* the returned shape runs the receiver's operations followed by the new one.
C1_ModifierKeepsChains ==
    [][IsModifier(call'.op) =>
          /\ \A i \in 1..Len(shapes) : chainOf(shapes'[i], nodes') = chainOf(shapes[i], nodes)
          /\ call'.op \in {"transform", "transformAsync", "refine", "refineAsync"} =>
                chainOf(shapes'[call'.ret], nodes')
                    = Append(chainOf(shapes[call'.recv], nodes), [type |-> call'.op, fn |-> call'.fn])
      ]_vars

C3_ParseUndefined ==
    \A i \in 1..Len(shapes) :
        LET shape == shapes[i]
            out == parseOf(shape, nodes, Undefined)
        IN  shape.coerceFn \in {"none", "boolean"} /\ shape.first = 0 =>
                IF shape.default # Undefined
                THEN ~out.threw /\ out.value = shape.default
                ELSE IF shape.optional
                THEN ~out.threw /\ out.value = Undefined
                ELSE out.threw /\ out.error.code = "REQUIRED"

\* C4: parse(null) succeeds with null if and only if the shape is nullable,
\* and fails when it is not, whatever the default and the kind.
C4_ParseNull ==
    \A i \in 1..Len(shapes) :
        LET shape == shapes[i]
            out == parseOf(shape, nodes, Null)
        IN  shape.coerceFn \in {"none", "boolean"} =>
                /\ (~out.threw /\ out.value = Null) <=> shape.nullable
                /\ ~shape.nullable => out.threw

\* C5: safeParse never throws, and a failure carries a ShapeError, for every
\* shape and input, a throwing predicate or coercion function included.
C5_SafeParseNeverThrows ==
    /\ call.op = "safeParse" =>
          /\ ~call.out.threw
          /\ ~call.out.success => call.out.error.class = "TshShapeError"
    /\ \A i \in 1..Len(shapes) : \A value \in Inputs :
          LET sp == safeParseOf(shapes[i], nodes, value)
          IN  /\ ~sp.threw
              /\ ~sp.success => sp.error.class = "TshShapeError"

\* C6: safeParse reports success exactly when parse returns, with the value
\* parse returns; when parse throws a ShapeError, safeParse reports a failure
\* with an error of the same code.
C6_ParseSafeParseAgree ==
    \A i \in 1..Len(shapes) : \A value \in Inputs :
        LET p == parseOf(shapes[i], nodes, value)
            sp == safeParseOf(shapes[i], nodes, value)
        IN  /\ (~sp.threw /\ sp.success) <=> ~p.threw
            /\ ~p.threw => sp.value = p.value
            /\ p.threw /\ p.error.class = "TshShapeError" =>
                  ~sp.threw /\ ~sp.success /\ sp.error.code = p.error.code

\* safeParse has reported the failure of a refine of the chain
C6_Witness ==
    /\ call.op = "safeParse"
    /\ ~call.out.threw /\ ~call.out.success
    /\ call.out.error.code = "VALIDATION_ERROR"
    /\ shapes[call.recv].first # 0

\* the chain holds an async entry
HasAsync(shape, N) ==
    \E k \in 1..Len(chainOf(shape, N)) :
        chainOf(shape, N)[k].type \in {"transformAsync", "refineAsync"}

\* C8: with a refineAsync or transformAsync entry in the chain, parse and
\* safeParse of a present value fail, and fail with SYNC_ASYNC_MISMATCH when
\* the async entry is the first operation reached; they never return a value
\* as if the entry were absent.
C8_AsyncInSyncPipeline ==
    \A i \in 1..Len(shapes) : \A value \in Inputs \ {Undefined, Null} :
        LET shape == shapes[i]
            p == parseOf(shape, nodes, value)
            sp == safeParseOf(shape, nodes, value)
            chain == chainOf(shape, nodes)
        IN  shape.coerceFn \in {"none", "boolean"} /\ HasAsync(shape, nodes) =>
                /\ p.threw
                /\ ~(~sp.threw /\ sp.success)
                /\ ( /\ chain[1].type \in {"transformAsync", "refineAsync"}
                     /\ _validateSync(shape, nodes, value) = NoErr
                     /\ _primitiveFn(shape, nodes, value) = NoErr )
                       => p.error.code = "SYNC_ASYNC_MISMATCH"

(***************************************************************************)
(* Revision "array": src/unnamed/part_009 lines 1-186.  The chain is the   *)
(* array _operations of the shape; refine pushes onto the receiver's array *)
(* and returns the receiver, transform clones and unshifts.                *)
(***************************************************************************)
\* clone._operations = [...this._operations]: the array is copied
_clone_array(shape) == shape

transform_array(S, N, s, fn) ==
    LET newShape == _clone_array(S[s])
        op == [type |-> "transform", fn |-> fn, code |-> "TRANSFORM_ERROR"]
    IN  Built(Append(S, [newShape EXCEPT !.operations = <<op>> \o @]), N, Len(S) + 1)

refine_array(S, N, s, fn) ==
    LET op == [type |-> "refine", fn |-> fn, code |-> "VALIDATION_ERROR"]
    IN  Built([S EXCEPT ![s].operations = Append(@, op)], N, s)

\* for (const op of this._operations), from position k on
RECURSIVE _operateFrom(_, _, _)
_operateFrom(operations, k, currentValue) ==
    IF k > Len(operations) THEN Return(currentValue)
    ELSE LET op == operations[k]
             r == applyFn(op.fn, currentValue)
         IN  IF op.type = "transform"
             THEN IF r.ok THEN _operateFrom(operations, k + 1, r.value)
                  ELSE Throw(TshShapeError(op.code, <<>>, <<>>, "none"))
             ELSE IF ~r.ok THEN Throw(r.err)
                  ELSE IF ~Truthy(r.value) THEN Throw(TshShapeError(op.code, <<>>, <<>>, "none"))
                  ELSE _operateFrom(operations, k + 1, currentValue)

_operate(shape, value) == _operateFrom(shape.operations, 1, value)

\* AnyShape.parse, src/unnamed/part_005 lines 5-11
AnyShape_parse(shape, input) ==
    LET value == IF input = Undefined /\ shape.default # Undefined THEN shape.default ELSE input
        result == _operate(shape, value)
    IN  IF value = Undefined /\ shape.optional THEN Returned(TRUE, Undefined, NoErr)
        ELSE IF value = Null /\ shape.nullable THEN Returned(TRUE, Null, NoErr)
        ELSE IF result.ok THEN Returned(TRUE, result.value, NoErr)
        ELSE Threw(result.err)

\* safeParse of the revision: try { this.parse(value) } catch (e) { error: e }
safeParse_array(parsed) ==
    IF parsed.threw THEN Returned(FALSE, Undefined, parsed.error)
    ELSE Returned(TRUE, parsed.value, NoErr)

(***************************************************************************)
(* Specification SpecArray: AnyShape of the array revision, built by       *)
(* transform/refine calls and parsed.                                      *)
(***************************************************************************)
Present == {Bool(TRUE), Bool(FALSE), Str("x")}
ArrayTransforms == {"negate", "throwError"}
ArrayPredicates == {"isTrue"}

InitArray ==
    /\ shapes = <<AbstractShape("array", "any", "none")>>
    /\ nodes = <<>>
    /\ call = Call("new", 0, "", Undefined, 1, NoOutcome)

ArrayTransform(s, fn) ==
    /\ Len(shapes) < MaxShapes
    /\ Len(shapes[s].operations) < MaxChain
    /\ LET built == transform_array(shapes, nodes, s, fn)
       IN  /\ shapes' = built.shapes
           /\ call' = Call("transform", s, fn, Undefined, built.ret, NoOutcome)
    /\ UNCHANGED nodes

ArrayRefine(s, fn) ==
    /\ Len(shapes[s].operations) < MaxChain
    /\ LET built == refine_array(shapes, nodes, s, fn)
       IN  /\ shapes' = built.shapes
           /\ call' = Call("refine", s, fn, Undefined, built.ret, NoOutcome)
    /\ UNCHANGED nodes

ArrayParse(s, value) ==
    /\ call' = Call("parse", s, "", value, 0, AnyShape_parse(shapes[s], value))
    /\ UNCHANGED <<shapes, nodes>>

ArraySafeParse(s, value) ==
    /\ call' = Call("safeParse", s, "", value, 0,
                    safeParse_array(AnyShape_parse(shapes[s], value)))
    /\ UNCHANGED <<shapes, nodes>>

NextArray ==
    \E s \in 1..Len(shapes) :
        \/ \E fn \in ArrayTransforms : ArrayTransform(s, fn)
        \/ \E fn \in ArrayPredicates : ArrayRefine(s, fn)
        \/ \E value \in Present : ArrayParse(s, value)
        \/ \E value \in Present : ArraySafeParse(s, value)

SpecArray == InitArray /\ [][NextArray]_vars

\* C7: parse applies the operations in the order of the calls that declared
\* them: the shape returned by transform(f) applies f to what the receiver's
\* chain produced, the shape returned by refine(p) tests p on what the
\* receiver's chain produced, and an input the receiver's chain rejected is
\* rejected in the same way, no later operation runs on it.
C7_OperationsRunInCallOrder ==
    [][call'.op \in {"transform", "refine"} =>
          \A value \in Present :
              LET before == AnyShape_parse(shapes[call'.recv], value)
                  after == AnyShape_parse(shapes'[call'.ret], value)
                  r == applyFn(call'.fn, before.value)
              IN  IF before.threw THEN after = before
                  ELSE IF ~r.ok THEN after.threw
                  ELSE IF call'.op = "transform" THEN ~after.threw /\ after.value = r.value
                  ELSE IF Truthy(r.value) THEN after = before
                  ELSE after.threw /\ after.error.code = "VALIDATION_ERROR"
      ]_vars

(***************************************************************************)
(* Shape classes of the revision "array": BooleanShape (part_007),         *)
(* ObjectShape (src/src/libs/shapes/object-shape.ts on BaseShape).         *)
(***************************************************************************)
\* undefined, as the value of _minProperties / _maxProperties
NoCount == -1

\* new ObjectShape(_shape): processShapes gives every child its key
ObjectShape(_shape) ==
    AbstractShape("array", "object", "none")
        @@ [_shape |-> [i \in 1..Len(_shape) |->
                           [key |-> _shape[i].key,
                            shape |-> [_shape[i].shape EXCEPT !.key = _shape[i].key]]],
            _partial |-> FALSE, _minProperties |-> NoCount, _maxProperties |-> NoCount]

\* BaseShape.createError: the error carries the key of the shape it names
createError(code, shape) == TshShapeError(code, <<shape.key>>, <<>>, "none")

\* BooleanShape.parse, src/unnamed/part_007 lines 13-61
BooleanShape_parse(shape, input) ==
    LET value == IF input = Undefined /\ shape.default # Undefined THEN shape.default ELSE input
        coerced == booleanCoerceFn(shape.coerce, value)
        result == _operate(shape, coerced)
    IN  IF value = Undefined /\ shape.optional THEN Returned(TRUE, Undefined, NoErr)
        ELSE IF value = Null /\ shape.nullable THEN Returned(TRUE, Null, NoErr)
        ELSE IF coerced.t # "boolean" THEN Threw(createError("NOT_BOOLEAN", shape))
        ELSE IF result.ok THEN Returned(TRUE, result.value, NoErr)
        ELSE Threw(result.err)

\* ObjectShape.getDefaults: one entry per declared child, undefined included
RECURSIVE getDefaults(_)
getDefaults(shape) ==
    LET keys == {shape._shape[i].key : i \in 1..Len(shape._shape)}
        child(k) == (CHOOSE i \in 1..Len(shape._shape) : shape._shape[i].key = k)
    IN  [k \in keys |->
            IF shape._shape[child(k)].shape.type = "object"
            THEN Obj(getDefaults(shape._shape[child(k)].shape))
            ELSE shape._shape[child(k)].shape.default]

\* { ...a, ...b }
Spread(a, b) == [k \in DOMAIN a \cup DOMAIN b |-> IF k \in DOMAIN b THEN b[k] ELSE a[k]]

\* the properties of this._default, none when it is undefined
object_defaults(shape) == IF shape.default.t = "object" THEN shape.default.v ELSE <<>>

\* ObjectShape.parse, src/src/libs/shapes/object-shape.ts lines 59-243: the
\* outcome and the receiver as the call leaves it (_key is assigned)
RECURSIVE ObjectShape_parse(_, _, _)
RECURSIVE parse_array(_, _, _)

\* shape.parse(resolvedVal, { path }) of a child, by its class
parse_array(shape, value, path) ==
    CASE shape.type = "object" -> ObjectShape_parse(shape, value, path)
      [] shape.type = "boolean" -> [out |-> BooleanShape_parse(shape, value), shape |-> shape]
      [] OTHER -> [out |-> AnyShape_parse(shape, value), shape |-> shape]

\* the rest of the try block once shape.parse(resolvedVal, ...) is done:
\* `parsed` is its outcome and the child as the call leaves it
ObjectShape_parsed(keyed, i, key, current_path, parsed) ==
    LET after == [keyed EXCEPT !.shape._shape[i].shape = parsed.shape]
        raised == [after EXCEPT !.errors =
                      Append(@, TshShapeError("INVALID_PROPERTY", <<current_path>>, <<>>, "none"))]
    IN  IF parsed.out.threw
        THEN IF parsed.out.error.class = "TshShapeError"
             THEN [after EXCEPT !.errors = Append(@, parsed.out.error)]
             ELSE raised
        \* Object.keys(parsedValue) of undefined or null raises a TypeError
        ELSE IF keyed.shape._partial /\ parsed.out.value \in {Undefined, Null} THEN raised
        ELSE [after EXCEPT !.entries = (key :> parsed.out.value) @@ @]

\* a turn of the loop that requires every declared key, partial or not
ObjectShape_entry_required(acc, value, merged, root_path, i) ==
    LET key == acc.shape._shape[i].key
    IN  IF key \in DOMAIN value.v
        THEN ObjectShape_parsed(acc, i, key, key,
                                parse_array(acc.shape._shape[i].shape, value.v[key], key))
        ELSE [acc EXCEPT !.errors =
                 Append(@, TshShapeError("MISSING_PROPERTY", <<key>>, <<>>, "none"))]

\* one turn of the loop over Object.entries(this._shape), for the i-th child
ObjectShape_entry(acc, value, merged, root_path, i) ==
    LET this == acc.shape
        key == this._shape[i].key
        shape == this._shape[i].shape
        current_path == IF root_path # "" THEN root_path \o "." \o key ELSE key
        keyed == [acc EXCEPT !.shape.key = current_path]
        inputVal == IF key \in DOMAIN merged THEN merged[key] ELSE Undefined
        resolvedVal ==
            IF inputVal = Undefined /\ shape.default # Undefined THEN shape.default ELSE inputVal
        raised(code) ==
            [keyed EXCEPT !.errors = Append(@, TshShapeError(code, <<current_path>>, <<>>, "none"))]
    IN  IF this._partial /\ key \notin DOMAIN merged THEN keyed
        ELSE IF shape.type = "object" /\ key \notin DOMAIN value.v THEN keyed
        ELSE IF resolvedVal = Undefined
        THEN IF shape.optional \/ this._partial THEN keyed ELSE raised("MISSING_PROPERTY")
        ELSE IF resolvedVal = Null
        THEN IF shape.nullable THEN [keyed EXCEPT !.entries = (key :> Null) @@ @]
             ELSE raised("NOT_NULLABLE")
        ELSE ObjectShape_parsed(keyed, i, key, current_path,
                                parse_array(shape, resolvedVal, current_path))

RECURSIVE ObjectShape_entries(_, _, _, _, _)
ObjectShape_entries(acc, value, merged, root_path, i) ==
    IF i > Len(acc.shape._shape) THEN acc
    ELSE ObjectShape_entries(ObjectShape_entry(acc, value, merged, root_path, i),
                             value, merged, root_path, i + 1)

\* the end of parse once the loop is done: the count checks, the raise of
\* the collected errors, the operations
ObjectShape_result(looped) ==
    LET this == looped.shape
        errors == looped.errors
        count == Cardinality(DOMAIN looped.entries)
        operated == _operate(this, Obj(looped.entries))
        Left(out) == [out |-> out, shape |-> this]
    IN  IF this._minProperties # NoCount /\ count < this._minProperties
        THEN Left(Threw(createError("TOO_FEW_PROPERTIES", this)))
        ELSE IF this._maxProperties # NoCount /\ count > this._maxProperties
        THEN Left(Threw(createError("TOO_MANY_PROPERTIES", this)))
        ELSE IF Len(errors) = 1 THEN Left(Threw(errors[1]))
        ELSE IF Len(errors) > 1 THEN Left(Threw(AggregateError(errors)))
        ELSE IF operated.ok THEN Left(Returned(TRUE, operated.value, NoErr))
        ELSE Left(Threw(operated.err))

\* a head of parse that returns the merged input as it is
ObjectShape_head_merged(this, defaults, value, root_path) ==
    IF value.t # "object" THEN [out |-> Threw(createError("NOT_OBJECT", this)), shape |-> this]
    ELSE [out |-> Returned(TRUE, Obj(Spread(defaults, value.v)), NoErr), shape |-> this]

\* the presence and type checks at the head of parse, on the defaults merged
ObjectShape_head(this, defaults, value, root_path) ==
    LET Done(out) == [out |-> out, shape |-> this]
    IN  IF value = Undefined /\ this.default # Undefined
        THEN Done(Returned(TRUE, Obj(defaults), NoErr))
        ELSE IF value = Undefined /\ this.optional THEN Done(Returned(TRUE, Undefined, NoErr))
        ELSE IF value = Null /\ this.nullable THEN Done(Returned(TRUE, Null, NoErr))
        ELSE IF value = Null /\ this.default # Undefined
        THEN Done(Returned(TRUE, Obj(defaults), NoErr))
        ELSE IF value.t # "object" THEN Done(Threw(createError("NOT_OBJECT", this)))
        ELSE ObjectShape_result(
                 ObjectShape_entries([shape |-> this, entries |-> <<>>, errors |-> <<>>],
                                     value, Spread(defaults, value.v), root_path, 1))

ObjectShape_parse(shape, value, root_path) ==
    ObjectShape_head([shape EXCEPT !.key = root_path],
                     Spread(getDefaults(shape), object_defaults(shape)), value, root_path)

(***************************************************************************)
(* Specification SpecComposite: a composite shape (ObjectShape, ArrayShape,*)
(* RecordShape, UnionShape) over leaf shapes of its own revision is parsed.*)
(***************************************************************************)
MaxItems == 2

Scalars == {Bool(TRUE), Bool(FALSE), Str("x")}
ArrayInputs == {Arr(items) : items \in UNION {[1..n -> Scalars] : n \in 0..MaxItems}}
ObjectInputs ==
    {Obj(props) : props \in UNION {[keys -> Scalars] :
                        keys \in SUBSET {PropertyNames[i] : i \in 1..Len(PropertyNames)}}}
CompositeInputs == {Undefined, Null} \cup Scalars \cup ArrayInputs \cup ObjectInputs

\* any(), boolean(), any().transform(negate) of the array revision
ArrayLeaves ==
    LET any == AbstractShape("array", "any", "none")
    IN  {any, AbstractShape("array", "boolean", "none"),
         transform_array(<<any>>, <<>>, 1, "negate").shapes[2]}

\* enum([true]).transform(negate) of the pipeline revision and the node it adds
EnumTransformed == transform(<<AbstractShape("pipeline", "enum", "none")>>, <<>>, 1, "negate")

\* enum([true]), enum([true]).transform(negate), a bare shape, a bare shape
\* whose coercion function throws a string
PipelineLeaves ==
    {AbstractShape("pipeline", "enum", "none"), EnumTransformed.shapes[2],
     AbstractShape("pipeline", "abstract", "none"),
     AbstractShape("pipeline", "abstract", "throwString")}

\* any(), boolean() of the named revision
NamedLeaves == {AbstractShape("named", "any", "none"), AbstractShape("named", "boolean", "boolean")}

Composites ==
    {ObjectShape(<<[key |-> "a", shape |-> x], [key |-> "b", shape |-> y]>>) :
        x \in ArrayLeaves, y \in ArrayLeaves}
    \cup {ArrayShape(x) : x \in PipelineLeaves}
    \cup {UnionShape(c) : c \in UNION {[1..n -> PipelineLeaves] : n \in 1..2}}
    \cup {RecordShape(k, v) : k \in NamedLeaves, v \in NamedLeaves}

InitComposite ==
    /\ shapes \in {<<c>> : c \in Composites}
    /\ nodes = EnumTransformed.nodes
    /\ call = Call("new", 0, "", Undefined, 1, NoOutcome)

\* shape.parse(value): the outcome and the receiver as the call leaves it
parseComposite(shape, N, value) ==
    CASE shape.type = "object" -> ObjectShape_parse(shape, value, "")
      [] shape.rev = "pipeline" -> [out |-> parse_pipeline(shape, N, value), shape |-> shape]
      [] OTHER -> [out |-> parse(shape, N, value), shape |-> shape]

\* shape.safeParse(value)
safeParseComposite(shape, N, value) ==
    CASE shape.type = "object" ->
            LET parsed == ObjectShape_parse(shape, value, "")
            IN  [out |-> safeParse_array(parsed.out), shape |-> parsed.shape]
      [] shape.rev = "pipeline" -> [out |-> safeParse_pipeline(shape, N, value), shape |-> shape]
      [] OTHER -> [out |-> safeParse(shape, N, value), shape |-> shape]

CompositeParse(s, value) ==
    LET result == parseComposite(shapes[s], nodes, value)
    IN  /\ shapes' = [shapes EXCEPT ![s] = result.shape]
        /\ call' = Call("parse", s, "", value, 0, result.out)
        /\ UNCHANGED nodes

CompositeSafeParse(s, value) ==
    LET result == safeParseComposite(shapes[s], nodes, value)
    IN  /\ shapes' = [shapes EXCEPT ![s] = result.shape]
        /\ call' = Call("safeParse", s, "", value, 0, result.out)
        /\ UNCHANGED nodes

NextComposite ==
    \E s \in 1..Len(shapes) : \E value \in CompositeInputs :
        \/ CompositeParse(s, value)
        \/ CompositeSafeParse(s, value)

SpecComposite == InitComposite /\ [][NextComposite]_vars

(***************************************************************************)
(* Properties of SpecComposite                                             *)
(***************************************************************************)
\* the children of a composite that reject their part of the input on their
\* own: declared properties of an object, items of an array, properties of a
\* record, in declaration / index order
InvalidChildren(shape, N, value) ==
    CASE shape.type = "object" /\ value.t = "object" ->
            SelectSeq([i \in 1..Len(shape._shape) |-> shape._shape[i]],
                      LAMBDA child :
                          /\ child.key \in DOMAIN value.v
                          /\ parse_array(child.shape, value.v[child.key], child.key).out.threw)
      [] shape.type = "array" /\ value.t = "array" ->
            SelectSeq([i \in 1..Len(value.v) |-> i],
                      LAMBDA i :
                          LET result == safeParse_pipeline(shape._shape, N, value.v[i])
                          IN  ~result.threw /\ ~result.success)
      [] shape.type = "record" /\ value.t = "object" ->
            SelectSeq(ObjectKeys(value.v),
                      LAMBDA k :
                          /\ safeParse(shape._keyShape, N, Str(k)).success
                          /\ ~safeParse(shape._valueShape, N, value.v[k]).success)
      [] OTHER -> <<>>

\* C9: when N >= 2 children of an object, array or record are invalid on
\* their own, safeParse of the composite returns a failure whose error is a
\* single ShapeError with a details list of length N, one per invalid child.
C9_AggregateCompleteness ==
    call.op = "safeParse" =>
        LET invalid == InvalidChildren(shapes[call.recv], nodes, call.input)
        IN  Len(invalid) >= 2 =>
                /\ ~call.out.threw /\ ~call.out.success
                /\ call.out.error.class = "TshShapeError"
                /\ Len(call.out.error.details) = Len(invalid)

\* C10: parse of a union returns if and only if a candidate accepts the
\* input, and it returns what the first accepting candidate's own parse
\* returns (its coercion and transforms applied), not the raw input.
C10_UnionFirstAccepting ==
    call.op = "parse" /\ shapes[call.recv].type = "union" =>
        LET candidates == shapes[call.recv].shapes
            accepting == {i \in 1..Len(candidates) :
                             ~parse_pipeline(candidates[i], nodes, call.input).threw}
            first == CHOOSE i \in accepting : \A j \in accepting : i <= j
        IN  /\ ~call.out.threw <=> accepting # {}
            /\ accepting # {} =>
                   call.out.value = parse_pipeline(candidates[first], nodes, call.input).value

\* every candidate of the union returns a failure for the input
AllCandidatesReject(shape, N, value) ==
    \A i \in 1..Len(shape.shapes) :
        LET result == safeParse_pipeline(shape.shapes[i], N, value)
        IN  ~result.threw /\ ~result.success

\* C11: when every candidate of a union rejects a present input, the error of the
\* union has the code NO_MATCHING_UNION_MEMBER and lists one error per
\* candidate, in the order of declaration: entry i is candidate i's error.
C11_UnionErrorsInOrder ==
    /\ call.op \in {"parse", "safeParse"}
    /\ shapes[call.recv].type = "union"
    /\ call.input \notin {Undefined, Null}
    /\ AllCandidatesReject(shapes[call.recv], nodes, call.input)
    => LET candidates == shapes[call.recv].shapes
           listed == call.out.error.extraErrors
       IN  /\ call.out.error.code = "NO_MATCHING_UNION_MEMBER"
           /\ Len(listed) = Len(candidates)
           /\ \A i \in 1..Len(candidates) :
                  listed[i].code = safeParse_pipeline(candidates[i], nodes, call.input).error.code

(***************************************************************************)
(* Modifiers of ObjectShape, src/src/libs/shapes/object-shape.ts lines     *)
(* 19-41 and 250-355, and of the AbstractShape it is built on              *)
(* (src/unnamed/part_009 lines 53-71): they assign on the receiver.        *)
(***************************************************************************)
\* AbstractShape.default of the array revision: assigned on the receiver when
\* no transform is in the chain, else kept aside in _pretransforms
default_array(S, N, s, value) ==
    IF \A k \in 1..Len(S[s].operations) : S[s].operations[k].type # "transform"
    THEN Built([S EXCEPT ![s].default = value], N, s)
    ELSE Built(S, N, s)

\* copyMetadata(newShape): every own field of the receiver but _type and
\* _shape is copied onto the new shape
copyMetadata(this, newShape) == [this EXCEPT !._shape = newShape._shape]

\* partial(): the receiver is flagged, every child is made optional in place
\* (optional() returns its receiver), and a new ObjectShape over the same
\* children takes the receiver's fields
partial(S, N, s) ==
    LET extended == [i \in 1..Len(S[s]._shape) |->
                        [key |-> S[s]._shape[i].key,
                         shape |-> [S[s]._shape[i].shape EXCEPT !.optional = TRUE]]]
        this == [S[s] EXCEPT !._partial = TRUE, !._shape = ObjectShape(extended)._shape]
    IN  Built(Append([S EXCEPT ![s] = this], copyMetadata(this, ObjectShape(extended))),
              N, Len(S) + 1)

\* deepPartial(): every child is made optional in place, a child that is an
\* ObjectShape is replaced by what its partial() returns; the receiver is
\* not flagged
deepPartial(S, N, s) ==
    LET extended == [i \in 1..Len(S[s]._shape) |->
                        [key |-> S[s]._shape[i].key,
                         shape |-> IF S[s]._shape[i].shape.type = "object"
                                   THEN partial(<<S[s]._shape[i].shape>>, N, 1).shapes[2]
                                   ELSE [S[s]._shape[i].shape EXCEPT !.optional = TRUE]]]
        children == [i \in 1..Len(S[s]._shape) |->
                        [key |-> S[s]._shape[i].key,
                         shape |-> IF S[s]._shape[i].shape.type = "object"
                                   THEN partial(<<S[s]._shape[i].shape>>, N, 1).shapes[1]
                                   ELSE [S[s]._shape[i].shape EXCEPT !.optional = TRUE]]]
        this == [S[s] EXCEPT !._shape = ObjectShape(children)._shape]
    IN  Built(Append([S EXCEPT ![s] = this], copyMetadata(this, ObjectShape(extended))),
              N, Len(S) + 1)

\* minProperties(min) / maxProperties(max): the count is assigned on the
\* receiver, partial() is called for its effect and the receiver returned
minProperties(S, N, s, min) ==
    Built([S EXCEPT ![s] = [partial(S, N, s).shapes[s] EXCEPT !._minProperties = min]], N, s)

maxProperties(S, N, s, max) ==
    Built([S EXCEPT ![s] = [partial(S, N, s).shapes[s] EXCEPT !._maxProperties = max]], N, s)

(***************************************************************************)
(* Specification SpecObject: an ObjectShape over AnyShape and BooleanShape *)
(* children is modified by partial / minProperties / maxProperties /       *)
(* default calls and parsed with parse.                                    *)
(***************************************************************************)
ObjectLeaves == {AbstractShape("array", "any", "none"), AbstractShape("array", "boolean", "none")}

Objects ==
    {ObjectShape(<<[key |-> "a", shape |-> x]>>) : x \in ObjectLeaves}
    \cup {ObjectShape(<<[key |-> "a", shape |-> AbstractShape("array", "boolean", "none")],
                         [key |-> "b", shape |-> y]>>) : y \in ObjectLeaves}

\* the shapes of one run: the constructed shape and the ones partial() returns
MaxObjects == 2

\* the values parse and safeParse are called with: no object, or an object
\* over a subset of the property names, a declared key absent or wrongly
\* typed, an undeclared key present
ObjectCalled ==
    {Undefined, Null, Str("x")}
    \cup {Obj(props) : props \in UNION {[keys -> {Bool(TRUE), Str("x")}] :
                            keys \in SUBSET {PropertyNames[i] : i \in 1..Len(PropertyNames)}}}
ObjectDefaults == {Obj([k \in {"a"} |-> Bool(TRUE)])}
Counts == {1}

InitObject ==
    /\ shapes \in {<<c>> : c \in Objects}
    /\ nodes = <<>>
    /\ call = Call("new", 0, "", Undefined, 1, NoOutcome)

ObjectModify(op, s, input, built) ==
    /\ shapes' = built.shapes
    /\ call' = Call(op, s, "", input, built.ret, NoOutcome)
    /\ UNCHANGED nodes

ObjectPartial(s) ==
    /\ Len(shapes) < MaxObjects
    /\ ObjectModify("partial", s, Undefined, partial(shapes, nodes, s))

ObjectDeepPartial(s) ==
    /\ Len(shapes) < MaxObjects
    /\ ObjectModify("deepPartial", s, Undefined, deepPartial(shapes, nodes, s))

ObjectMinProperties(s, min) ==
    ObjectModify("minProperties", s, Num(min), minProperties(shapes, nodes, s, min))

ObjectMaxProperties(s, max) ==
    ObjectModify("maxProperties", s, Num(max), maxProperties(shapes, nodes, s, max))

ObjectDefault(s, value) ==
    ObjectModify("default", s, value, default_array(shapes, nodes, s, value))

NextObject ==
    \E s \in 1..Len(shapes) :
        \/ ObjectPartial(s)
        \/ ObjectDeepPartial(s)
        \/ \E min \in Counts : ObjectMinProperties(s, min)
        \/ \E max \in Counts : ObjectMaxProperties(s, max)
        \/ \E value \in ObjectDefaults : ObjectDefault(s, value)
        \/ \E value \in ObjectCalled : CompositeParse(s, value)

SpecObject == InitObject /\ [][NextObject]_vars

(***************************************************************************)
(* Properties of SpecObject                                                *)
(***************************************************************************)
\* the keys an ObjectShape declares
DeclaredKeys(shape) == {shape._shape[i].key : i \in 1..Len(shape._shape)}

ChildParse(shape, value, k) ==
    LET i == CHOOSE i \in 1..Len(shape._shape) : shape._shape[i].key = k
    IN  parse_array(shape._shape[i].shape, value.v[k], k).out

Callbacks == {"parse", "safeParse"}

cb(callback, shape, N, value) ==
    IF callback = "parse" THEN parseOf(shape, N, value) ELSE safeParseOf(shape, N, value)

\* abstract-shape.ts lines 342-349: prev = this._key; this._key = subkey;
\* result = cb(); this._key = prev.  A throw of cb leaves before the last
\* assignment
withPath_left(shape, inside, result) ==
    [out |-> result, shape |-> IF result.threw THEN inside ELSE shape]

withPath_key(shape, N, subkey, callback, value) ==
    withPath_left(shape, [shape EXCEPT !.key = subkey],
                  cb(callback, [shape EXCEPT !.key = subkey], N, value))

\* part_009 lines 580-595: prevPath = [...this._path]; this._path.push(subkey);
\* try { return cb() } finally { this._path = prevPath }
withPath_path(shape, N, subkey, callback, value) ==
    [out |-> cb(callback, withPath(shape, subkey), N, value),
     shape |-> [withPath(shape, subkey) EXCEPT !.path = shape.path]]

\* base-shape.ts lines 21-26
parseWithDefault(shape, value) ==
    IF value = Undefined /\ shape.default # Undefined
    THEN LET operated == _operate(shape, shape.default)
         IN  IF operated.ok THEN Returned(TRUE, operated.value, NoErr) ELSE Threw(operated.err)
    ELSE parse_array(shape, value, "").out

\* base-shape.ts lines 28-44: this._key = subkey; the operations run once
\* more on what parseWithDefault returns; a thrown value that is not a
\* ShapeError is replaced by a PARSE_ERROR
parseWithPath(shape, value, subkey) ==
    LET this == [shape EXCEPT !.key = subkey]
        parsed == parseWithDefault(this, value)
        operated == _operate(this, parsed.value)
        raised == IF parsed.threw THEN parsed.error ELSE operated.err
    IN  [out |-> IF ~parsed.threw /\ operated.ok THEN Returned(TRUE, operated.value, NoErr)
                 ELSE IF raised.class = "TshShapeError" THEN Threw(raised)
                 ELSE Threw(TshShapeError("PARSE_ERROR", <<subkey>>, <<>>, "none")),
         shape |-> this]

(***************************************************************************)
(* Specification SpecPath: withPath / parseWithPath calls on a leaf shape. *)
(***************************************************************************)
Subkeys == {"a", "items[0]", "items[1]"}

InitPath ==
    /\ shapes \in {<<c>> : c \in Constructed \cup {AbstractShape("array", "boolean", "none")}}
    /\ nodes = <<>>
    /\ call = Call("new", 0, "", Undefined, 1, NoOutcome)

\* the call is over: the receiver as it is left, the outcome
PathCalled(op, s, callback, value, result) ==
    /\ shapes' = [shapes EXCEPT ![s] = result.shape]
    /\ call' = Call(op, s, callback, value, 0, result.out)
    /\ UNCHANGED nodes

WithPath(s, subkey, callback, value) ==
    /\ shapes[s].rev \in {"named", "pipeline"}
    /\ PathCalled("withPath", s, callback, value,
                  IF shapes[s].rev = "named"
                  THEN withPath_key(shapes[s], nodes, subkey, callback, value)
                  ELSE withPath_path(shapes[s], nodes, subkey, callback, value))

ParseWithPath(s, subkey, value) ==
    /\ shapes[s].rev = "array"
    /\ PathCalled("parseWithPath", s, "", value, parseWithPath(shapes[s], value, subkey))

NextPath ==
    \E s \in 1..Len(shapes) : \E subkey \in Subkeys : \E value \in Inputs :
        \/ \E callback \in Callbacks : WithPath(s, subkey, callback, value)
        \/ ParseWithPath(s, subkey, value)

SpecPath == InitPath /\ [][NextPath]_vars

\* C14: when withPath(subkey, cb) is over, by a return of cb or by a throw,
\* the shape has the key and the path it had before the call.
C14_WithPathRestores ==
    [][call'.op = "withPath" =>
          /\ shapes'[call'.recv].key = shapes[call'.recv].key
          /\ shapes'[call'.recv].path = shapes[call'.recv].path
      ]_vars

(***************************************************************************)
(* Specification SpecNested: a composite whose children are composites of  *)
(* its own revision (an ArrayShape of ArrayShapes, an ObjectShape holding  *)
(* an ObjectShape) is parsed.                                              *)
(***************************************************************************)
NestedItems == {Bool(TRUE), Str("x")}

\* arrays of arrays, objects whose property a is an object, the empty object
NestedInputs ==
    LET inner == {Arr(items) : items \in UNION {[1..n -> NestedItems] : n \in 0..MaxItems}}
        props == {Obj(p) : p \in UNION {[keys -> NestedItems] :
                     keys \in SUBSET {PropertyNames[i] : i \in 1..Len(PropertyNames)}}}
    IN  {Arr(items) : items \in UNION {[1..n -> inner] : n \in 0..MaxItems}}
        \cup {Obj([k \in {"a"} |-> p]) : p \in props}
        \cup {Obj(<<>>)}

NestedShapes ==
    {ArrayShape(ArrayShape(x)) : x \in PipelineLeaves}
    \cup {ObjectShape(<<[key |-> "a",
                         shape |-> ObjectShape(<<[key |-> "a", shape |-> x],
                                                 [key |-> "b", shape |-> y]>>)]>>) :
              x \in ObjectLeaves, y \in ObjectLeaves}

InitNested ==
    /\ shapes \in {<<c>> : c \in NestedShapes}
    /\ nodes = EnumTransformed.nodes
    /\ call = Call("new", 0, "", Undefined, 1, NoOutcome)

NextNested ==
    \E s \in 1..Len(shapes) : \E value \in NestedInputs : CompositeParse(s, value)

SpecNested == InitNested /\ [][NextNested]_vars

\* the leaves of a nested input that the leaf shape rejects on its own, each
\* as the pair of segments that leads to it from the root: the two indices
\* (from 0) in an array of arrays, the two keys in an object of objects
FailingLeaves(shape, N, value) ==
    CASE shape.type = "array" /\ value.t = "array" ->
            {<<ToString(at[1] - 1), ToString(at[2] - 1)>> :
                at \in {at \in (1..Len(value.v)) \X (1..MaxItems) :
                           /\ at[2] <= Len(value.v[at[1]].v)
                           /\ LET result == safeParse_pipeline(shape._shape._shape, N,
                                                               value.v[at[1]].v[at[2]])
                              IN  ~result.threw /\ ~result.success}}
      [] shape.type = "object" /\ value.t = "object" /\ "a" \in DOMAIN value.v ->
            {<<"a", k>> : k \in {k \in DeclaredKeys(shape._shape[1].shape) \cap DOMAIN value.v["a"].v :
                                    ChildParse(shape._shape[1].shape, value.v["a"], k).threw}}
      [] OTHER -> {}

\* the forms a segment may take in a path
Forms(segment) == {segment, "[" \o segment \o "]"}

\* C15: when one leaf of a nested input is rejected, the error parse raises
\* carries the structural path to it: its path ends with the segment of the
\* outer composite (index i or field) followed by the segment of the inner
\* one (index j or field k).
C15_NestedErrorPath ==
    call.op = "parse" =>
        LET failing == FailingLeaves(shapes[call.recv], nodes, call.input)
            path == call.out.error.path
        IN  \A leaf \in failing :
                failing = {leaf} =>
                    /\ call.out.threw
                    /\ Len(path) >= 2
                    /\ path[Len(path) - 1] \in Forms(leaf[1])
                    /\ path[Len(path)] \in Forms(leaf[2])

(***************************************************************************)
(* Specification SpecDefaults: a shape with no operation in its chain is   *)
(* given a default of its own type, made optional, and parsed.             *)
(***************************************************************************)
DefaultedShapes ==
    {ArrayShape(AbstractShape("pipeline", "enum", "none")),
     AbstractShape("pipeline", "abstract", "none"),
     AbstractShape("named", "boolean", "boolean"),
     ObjectShape(<<[key |-> "a", shape |-> AbstractShape("array", "boolean", "none")]>>)}

\* the defaults the type of the shape admits: T[] for an ArrayShape, an
\* object of the declared keys for an ObjectShape, a boolean for a BooleanShape
DefaultsOf(shape) ==
    CASE shape.type = "array" -> {Arr(<<Bool(TRUE)>>)}
      [] shape.type = "object" -> ObjectDefaults
      [] shape.type = "boolean" -> {Bool(TRUE)}
      [] OTHER -> {Arr(<<Bool(TRUE)>>), Bool(TRUE)} \cup ObjectDefaults

DefaultsInputs ==
    {Undefined, Bool(TRUE), Str("x")}
    \cup {Arr(items) : items \in UNION {[1..n -> {Bool(TRUE)}] : n \in 0..MaxItems}}
    \cup {Obj(props) : props \in UNION {[keys -> {Bool(TRUE)}] :
                            keys \in SUBSET {PropertyNames[i] : i \in 1..Len(PropertyNames)}}}

InitDefaults ==
    /\ shapes \in {<<c>> : c \in DefaultedShapes}
    /\ nodes = <<>>
    /\ call = Call("new", 0, "", Undefined, 1, NoOutcome)

\* default(value): on a clone in the linked-chain revisions, on the receiver
\* in the array revision
DefaultsDefault(s, value) ==
    /\ Len(shapes) < MaxShapes
    /\ ObjectModify("default", s, value,
                    IF shapes[s].rev = "array" THEN default_array(shapes, nodes, s, value)
                    ELSE default(shapes, nodes, s, value))

DefaultsOptional(s) ==
    /\ Len(shapes) < MaxShapes
    /\ shapes[s].rev # "array"
    /\ ObjectModify("optional", s, Undefined, optional(shapes, nodes, s))

NextDefaults ==
    \E s \in 1..Len(shapes) :
        \/ \E value \in DefaultsOf(shapes[s]) : DefaultsDefault(s, value)
        \/ DefaultsOptional(s)
        \/ \E value \in DefaultsInputs : CompositeParse(s, value)

SpecDefaults == InitDefaults /\ [][NextDefaults]_vars

\* C16: for a shape with no transform in its chain and a value parse
\* accepts, parsing the result again returns the same result:
\* parse(parse(v)) = parse(v).
C16_ParseIdempotent ==
    /\ call.op = "parse"
    /\ ~call.out.threw
    /\ shapes[call.recv].first = 0
    /\ shapes[call.recv].operations = <<>>
    => LET again == parseComposite(shapes[call.recv], nodes, call.out.value).out
       IN  /\ ~again.threw
           /\ again.value = call.out.value

(***************************************************************************)
(* NumberShape, src/src/libs/shapes/number-shape.ts, and the modifiers of  *)
(* the array revision that assign on the receiver.                         *)
(***************************************************************************)
\* a coercion that turns a text that is no number into 0
numberCoerce_zeroed(shape, value) ==
    CASE value.t \in {"null", "undefined"} -> Return(Num(0))
      [] value.t = "boolean" -> Return(Num(IF value.v THEN 1 ELSE 0))
      [] value.t = "string" ->
            Return(IF isNaN(Number(Spelling(value.v))) THEN Num(0) ELSE Number(Spelling(value.v)))
      [] OTHER -> Return(value)

\* the if (this._coerce) block of NumberShape.parse, lines 29-56
numberCoerce(shape, value) ==
    CASE value \in {Null, Undefined, Str("")} -> Return(Num(0))
      [] value.t = "boolean" -> Return(Num(IF value.v THEN 1 ELSE 0))
      [] value.t = "string" ->
            IF isNaN(Number(Spelling(value.v))) THEN Throw(createError("NOT_NUMBER", shape))
            ELSE Return(Number(Spelling(value.v)))
      [] value.t = "number" -> Return(value)
      [] OTHER -> Throw(createError("NOT_NUMBER", shape))

\* what NumberShape.parse does with the value once it is coerced
NumberShape_coerced(shape, coerced) ==
    LET result == _operate(shape, coerced.value)
    IN  IF ~coerced.ok THEN Threw(coerced.err)
        ELSE IF coerced.value.t # "number" THEN Threw(createError("NOT_NUMBER", shape))
        ELSE IF result.ok THEN Returned(TRUE, result.value, NoErr)
        ELSE Threw(result.err)

\* NumberShape.parse, lines 24-71
NumberShape_parse(shape, input) ==
    LET value == IF input = Undefined /\ shape.default # Undefined THEN shape.default ELSE input
    IN  IF value = Undefined /\ shape.optional THEN Returned(TRUE, Undefined, NoErr)
        ELSE IF value = Null /\ shape.nullable THEN Returned(TRUE, Null, NoErr)
        ELSE NumberShape_coerced(shape,
                 IF shape.coerce THEN numberCoerce(shape, value) ELSE Return(value))

\* coerce(): this._coerce = true; return this
coerce(S, N, s) == Built([S EXCEPT ![s].coerce = TRUE], N, s)

\* optional() / nullable() of the array revision, part_009 lines 68-76
optional_array(S, N, s) == Built([S EXCEPT ![s].optional = TRUE], N, s)
nullable_array(S, N, s) == Built([S EXCEPT ![s].nullable = TRUE], N, s)

(***************************************************************************)
(* Specification SpecCoerce: a BooleanShape (of part_006 on the named      *)
(* revision, of part_007 on the array revision) or a NumberShape is        *)
(* modified by coerce / optional / nullable / default calls and parsed.    *)
(* `closure` is the instance whose constructor made the validator and the  *)
(* coercion function a shape of the named revision holds: _clone copies    *)
(* them from the receiver with Object.assign, and they read this._coerce   *)
(* of the instance they were made for.                                     *)
(***************************************************************************)
Texts ==
    {"", " ", "yes", " YES ", "no", "No", "true", "false", "y", "n", "s", "0", "1", " 0 ",
     "00", "42", "-1", "abc"}

CoerceInputs ==
    {Undefined, Null, Bool(TRUE), Bool(FALSE), Num(0), Num(1), Num(-1), NaN, Arr(<<>>),
     Obj(<<>>)}
    \cup {Str(text) : text \in Texts}

CoercedShapes ==
    {AbstractShape("named", "boolean", "boolean") @@ [closure |-> 1],
     AbstractShape("array", "boolean", "none") @@ [closure |-> 1],
     AbstractShape("array", "number", "none") @@ [closure |-> 1]}

CoerceDefaultOf(shape) == IF shape.type = "number" THEN Num(1) ELSE Bool(TRUE)

\* shape.parse(value), by the class of the shape
parseCoerced(S, N, s, value) ==
    CASE S[s].rev = "named" ->
            parse([S[s] EXCEPT !.coerce = S[S[s].closure].coerce], N, value)
      [] S[s].type = "number" -> NumberShape_parse(S[s], value)
      [] OTHER -> BooleanShape_parse(S[s], value)

InitCoerce ==
    /\ shapes \in {<<c>> : c \in CoercedShapes}
    /\ nodes = <<>>
    /\ call = Call("new", 0, "", Undefined, 1, NoOutcome)

CoerceModify(op, s, input, built) ==
    /\ Len(built.shapes) <= MaxShapes
    /\ ObjectModify(op, s, input, built)

Coerce(s) == CoerceModify("coerce", s, Undefined, coerce(shapes, nodes, s))

CoerceOptional(s) ==
    CoerceModify("optional", s, Undefined,
                 IF shapes[s].rev = "array" THEN optional_array(shapes, nodes, s)
                 ELSE optional(shapes, nodes, s))

CoerceNullable(s) ==
    CoerceModify("nullable", s, Undefined,
                 IF shapes[s].rev = "array" THEN nullable_array(shapes, nodes, s)
                 ELSE nullable(shapes, nodes, s))

CoerceDefault(s) ==
    CoerceModify("default", s, CoerceDefaultOf(shapes[s]),
                 IF shapes[s].rev = "array"
                 THEN default_array(shapes, nodes, s, CoerceDefaultOf(shapes[s]))
                 ELSE default(shapes, nodes, s, CoerceDefaultOf(shapes[s])))

CoerceParse(s, value) ==
    /\ call' = Call("parse", s, "", value, 0, parseCoerced(shapes, nodes, s, value))
    /\ UNCHANGED <<shapes, nodes>>

NextCoerce ==
    \E s \in 1..Len(shapes) :
        \/ Coerce(s)
        \/ CoerceOptional(s)
        \/ CoerceNullable(s)
        \/ CoerceDefault(s)
        \/ \E value \in CoerceInputs : CoerceParse(s, value)

SpecCoerce == InitCoerce /\ [][NextCoerce]_vars

(***************************************************************************)
(* Properties of SpecCoerce                                                *)
(***************************************************************************)
\* the boolean a value is converted to, by kind of value
CoercedBoolean(value) ==
    CASE value.t = "string" ->
            LET text == trim(toLowerCase(Spelling(value.v)))
            IN  IF text \in {Spelling("yes"), Spelling("y"), Spelling("1"), Spelling("true")}
                THEN TRUE
                ELSE IF text \in {Spelling("no"), Spelling("n"), Spelling("0"), Spelling("false")}
                THEN FALSE
                ELSE IF ~isNaN(Number(text)) THEN Number(text).v # 0
                ELSE Truthy(value)
      [] value.t = "number" -> ~isNaN(value) /\ value.v # 0
      [] value.t \in {"null", "undefined"} -> FALSE
      [] OTHER -> Truthy(value)

\* the input is settled by the presence rules before any conversion
SettledByPresence(shape, value) ==
    \/ value = Undefined /\ (shape.optional \/ shape.default # Undefined)
    \/ value = Null /\ shape.nullable

\* C17: a BooleanShape with no operation on which coerce() was called
\* returns, for an input the presence rules do not settle, the boolean the
\* conversion table gives (text lower-cased and trimmed: yes/y/1/true,
\* no/n/0/false, other numeric text by != 0, other text by truthiness;
\* number by not NaN and != 0; null and undefined false; others by
\* truthiness); without coerce() a present non-boolean input fails with
\* NOT_BOOLEAN.
C17_BooleanCoercion ==
    /\ call.op = "parse"
    /\ shapes[call.recv].type = "boolean"
    /\ ~SettledByPresence(shapes[call.recv], call.input)
    => IF shapes[call.recv].coerce
       THEN /\ ~call.out.threw
            /\ call.out.value = Bool(CoercedBoolean(call.input))
       ELSE call.input.t \notin {"boolean", "undefined"} =>
                call.out.threw /\ call.out.error.code = "NOT_BOOLEAN"

C19_CountAfterChildErrors ==
    /\ call.op = "parse"
    /\ call.input.t = "object"
    /\ shapes[call.recv].default = Undefined
    /\ \E k \in DeclaredKeys(shapes[call.recv]) \cap DOMAIN call.input.v :
           ChildParse(shapes[call.recv], call.input, k).threw
    => /\ call.out.threw
       /\ call.out.error.code \notin {"TOO_FEW_PROPERTIES", "TOO_MANY_PROPERTIES"}

(***************************************************************************)
(* Properties of SpecComposite: the errors a RecordShape collects          *)
(***************************************************************************)
\* the errors an error of a record stands for: the ones it aggregates, or itself
CollectedErrors(error) ==
    IF error.code = "MULTIPLE_ERRORS" THEN error.extraErrors ELSE <<error>>

\* C20: when parse or safeParse of a RecordShape is given an object, every
\* key its key shape rejects and every value its value shape rejects has an
\* error of its own among the collected errors: a property whose key and
\* value are both rejected contributes two errors, and a failing property
\* does not keep the following properties from being validated.
C20_RecordKeysAndValues ==
    /\ call.op \in {"parse", "safeParse"}
    /\ shapes[call.recv].type = "record"
    /\ call.input.t = "object"
    => LET shape == shapes[call.recv]
           rejectedKeys == {k \in DOMAIN call.input.v :
                               ~safeParse(shape._keyShape, nodes, Str(k)).success}
           rejectedValues == {k \in DOMAIN call.input.v :
                                 ~safeParse(shape._valueShape, nodes, call.input.v[k]).success}
       IN  rejectedKeys \cup rejectedValues # {} =>
               /\ call.out.error.class = "TshShapeError"
               /\ Len(CollectedErrors(call.out.error))
                      >= Cardinality(rejectedKeys) + Cardinality(rejectedValues)

(***************************************************************************)
(* Properties of SpecObject: what partial() and deepPartial() leave alone  *)
(***************************************************************************)
\* C21: a call of partial() or deepPartial() leaves its receiver as it was:
\* the receiver's partial flag and its children (each child's optional flag
\* included) are the same after the call, so the receiver still refuses an
\* input that lacks one of its required keys.
C21_PartialLeavesReceiver ==
    [][call'.op \in {"partial", "deepPartial"} =>
          shapes'[call'.recv] = shapes[call'.recv]
      ]_vars

(***************************************************************************)
(* Properties of Spec: a user-supplied function that throws                *)
(***************************************************************************)
\* a traversal of the chain from node op with value v calls a function that
\* throws
RECURSIVE ChainThrows(_, _, _)
ChainThrows(N, op, v) ==
    IF op = 0 \/ N[op].type \notin {"transform", "refine"} THEN FALSE
    ELSE LET r == applyFn(N[op].fn, v)
         IN  IF ~r.ok THEN TRUE
             ELSE IF N[op].type = "transform" THEN ChainThrows(N, N[op].next, r.value)
             ELSE Truthy(r.value) /\ ChainThrows(N, N[op].next, v)

\* parse of a present input calls a user-supplied function that throws: the
\* coercion function, or a function of the chain once the shape without its
\* chain accepts the input
UserFunctionThrows(shape, N, input) ==
    /\ input \notin {Undefined, Null}
    /\ \/ shape.coerceFn \notin {"none", "boolean"} /\ ~applyFn(shape.coerceFn, input).ok
       \/ /\ shape.coerceFn \in {"none", "boolean"}
          /\ ~parseOf([shape EXCEPT !.first = 0, !.last = 0], N, input).threw
          /\ ChainThrows(N, shape.first, _coerceValue(shape, input).value)

\* C22: when a refine predicate, a transform function or the coercion
\* function throws, parse throws and safeParse returns a failure whose error
\* is a ShapeError of code UNEXPECTED_ERROR that holds the thrown value in
\* its extra map.
C22_UnexpectedErrorWrapped ==
    /\ call.op \in {"parse", "safeParse"}
    /\ UserFunctionThrows(shapes[call.recv], nodes, call.input)
    => /\ call.out.threw <=> call.op = "parse"
       /\ ~call.out.success \/ call.out.threw
       /\ call.out.error.class = "TshShapeError"
       /\ call.out.error.code = "UNEXPECTED_ERROR"
       /\ call.out.error.extra \in {"string", "Error"}

(***************************************************************************)
(* The ObjectShape of src/unnamed/part_010 lines 137-400.  getDefaults     *)
(* starts from this._default itself when it is set and writes the          *)
(* children's defaults into it; parse takes what getDefaults returns as    *)
(* its result object and writes every parsed property into it.  An         *)
(* operator returns the outcome and the receiver as the call leaves it.    *)
(***************************************************************************)
\* this._default ?? {} is the object of the default itself
aliased(shape) == shape.default.t = "object"

\* the while (ckey) loop of getDefaults from child i on, on result
RECURSIVE getDefaults_from(_, _, _)
getDefaults_from(shape, i, result) ==
    IF i > Len(shape._shape) THEN result
    ELSE LET key == shape._shape[i].key
             child == shape._shape[i].shape
             nested == IF child.type = "object"
                       THEN getDefaults_from(child, 1, IF aliased(child) THEN child.default.v ELSE <<>>)
                       ELSE <<>>
         IN  getDefaults_from(shape, i + 1,
                 IF child.type = "object"
                 THEN IF DOMAIN nested # {} THEN (key :> Obj(nested)) @@ result ELSE result
                 ELSE IF child.default # Undefined THEN (key :> child.default) @@ result
                 ELSE result)

\* getDefaults, part_010 lines 175-196: the properties of the object returned
getDefaults_aliased(shape) ==
    getDefaults_from(shape, 1, IF aliased(shape) THEN shape.default.v ELSE <<>>)

\* the try block of a turn of the loop, `parsed` the outcome of shape.parse
ObjectShape_tried(acc, key, parsed) ==
    IF ~parsed.threw THEN [acc EXCEPT !.result = (key :> parsed.value) @@ @]
    ELSE IF parsed.error.class = "AggregateError"
    THEN [acc EXCEPT !.errors = @ \o parsed.error.errors]
    ELSE IF parsed.error.class = "TshShapeError" THEN [acc EXCEPT !.errors = Append(@, parsed.error)]
    ELSE [acc EXCEPT !.errors = Append(@, TshShapeError("INVALID_PROPERTY", <<key>>, <<>>, "none"))]

\* one turn of the for loop of parse, lines 229-279; `keyed` holds the child
\* with its _key assigned, `value` the property or the default under key
ObjectShape_turn(keyed, input, isPartial, key, child, value) ==
    IF isPartial /\ key \notin DOMAIN input.v THEN keyed
    ELSE IF value = Undefined
    THEN IF child.optional THEN keyed
         ELSE [keyed EXCEPT !.errors =
                  Append(@, TshShapeError("MISSING_PROPERTY", <<child.key>>, <<>>, "none"))]
    ELSE IF value = Null
    THEN IF child.nullable THEN [keyed EXCEPT !.result = (key :> Null) @@ @]
         ELSE [keyed EXCEPT !.errors =
                  Append(@, TshShapeError("NULL_VALUE", <<child.key>>, <<>>, "none"))]
    ELSE ObjectShape_tried(keyed, key, parse_array(child, value, child.key).out)

ObjectShape_keyed(acc, input, isPartial, i, key, child) ==
    ObjectShape_turn([acc EXCEPT !.shape._shape[i].shape = child], input, isPartial, key, child,
                     IF key \in DOMAIN input.v THEN input.v[key]
                     ELSE IF key \in DOMAIN acc.result THEN acc.result[key]
                     ELSE Undefined)

RECURSIVE ObjectShape_turns(_, _, _, _)
ObjectShape_turns(acc, input, isPartial, i) ==
    IF i > Len(acc.shape._shape) THEN acc
    ELSE ObjectShape_turns(
             ObjectShape_keyed(acc, input, isPartial, i, acc.shape._shape[i].key,
                 [acc.shape._shape[i].shape EXCEPT !.key =
                     IF acc.shape.key # "" THEN acc.shape.key \o "." \o acc.shape._shape[i].key
                     ELSE acc.shape._shape[i].key]),
             input, isPartial, i + 1)

\* the end of parse, lines 281-321; the receiver's default is the result
\* object when getDefaults returned the default itself
ObjectShape_ended(looped, was_aliased) ==
    LET this == IF was_aliased THEN [looped.shape EXCEPT !.default = Obj(looped.result)]
                ELSE looped.shape
        count == Cardinality(DOMAIN looped.result)
        operated == _operate(this, Obj(looped.result))
        Left(out) == [out |-> out, shape |-> this]
    IN  IF count = 0 /\ this.default # Undefined THEN Left(Returned(TRUE, Obj(looped.result), NoErr))
        ELSE IF this._minProperties # NoCount /\ count < this._minProperties
        THEN Left(Threw(TshShapeError("TOO_FEW_PROPERTIES", <<>>, <<>>, "none")))
        ELSE IF this._maxProperties # NoCount /\ count > this._maxProperties
        THEN Left(Threw(TshShapeError("TOO_MANY_PROPERTIES", <<>>, <<>>, "none")))
        ELSE IF Len(looped.errors) = 1 THEN Left(Threw(looped.errors[1]))
        ELSE IF Len(looped.errors) > 1 THEN Left(Threw(AggregateError(looped.errors)))
        ELSE IF operated.ok THEN Left(Returned(TRUE, operated.value, NoErr))
        ELSE Left(Threw(operated.err))

\* parse once getDefaults has run: `this` is the receiver as getDefaults
\* leaves it, defaults what it returned
ObjectShape_defaulted(this, defaults, was_aliased, value, rootpath) ==
    IF value = Undefined /\ this.optional
    THEN [out |-> Returned(TRUE, Undefined, NoErr), shape |-> this]
    ELSE IF value = Null /\ this.nullable THEN [out |-> Returned(TRUE, Null, NoErr), shape |-> this]
    ELSE IF value.t # "object"
    THEN [out |-> Threw(TshShapeError("NOT_OBJECT", <<>>, <<>>, "none")),
          shape |-> [this EXCEPT !.key = rootpath]]
    ELSE ObjectShape_ended(
             ObjectShape_turns([shape |-> [this EXCEPT !.key = rootpath], result |-> defaults,
                                errors |-> <<>>],
                               value, this._partial, 1),
             was_aliased)

\* ObjectShape.parse, part_010 lines 198-324
ObjectShape_parse_aliased(shape, value, rootpath) ==
    ObjectShape_defaulted(
        IF aliased(shape) THEN [shape EXCEPT !.default = Obj(getDefaults_aliased(shape))] ELSE shape,
        getDefaults_aliased(shape), aliased(shape), value, rootpath)

(***************************************************************************)
(* Specification SpecAliased: an ObjectShape of part_010 is given a        *)
(* default, made optional and parsed.                                      *)
(***************************************************************************)
AliasedObjects ==
    {ObjectShape(<<[key |-> "a", shape |-> AbstractShape("array", "boolean", "none")]>>),
     ObjectShape(<<[key |-> "a", shape |-> AbstractShape("array", "boolean", "none")],
                   [key |-> "b", shape |-> AbstractShape("array", "any", "none")]>>),
     ObjectShape(<<[key |-> "a", shape |-> AbstractShape("array", "any", "none")],
                   [key |-> "b",
                    shape |-> [AbstractShape("array", "boolean", "none") EXCEPT !.default = Bool(FALSE)]]>>)}

InitAliased ==
    /\ shapes \in {<<c>> : c \in AliasedObjects}
    /\ nodes = <<>>
    /\ call = Call("new", 0, "", Undefined, 1, NoOutcome)

AliasedDefault(s, value) ==
    ObjectModify("default", s, value, default_array(shapes, nodes, s, value))

AliasedOptional(s) == ObjectModify("optional", s, Undefined, optional_array(shapes, nodes, s))

\* the call is over: the receiver as parse leaves it, the outcome
AliasedCalled(op, s, value, out, shape) ==
    /\ shapes' = [shapes EXCEPT ![s] = shape]
    /\ call' = Call(op, s, "", value, 0, out)
    /\ UNCHANGED nodes

AliasedParse(s, value) ==
    AliasedCalled("parse", s, value, ObjectShape_parse_aliased(shapes[s], value, "").out,
                  ObjectShape_parse_aliased(shapes[s], value, "").shape)

AliasedSafeParse(s, value) ==
    AliasedCalled("safeParse", s, value,
                  safeParse_array(ObjectShape_parse_aliased(shapes[s], value, "").out),
                  ObjectShape_parse_aliased(shapes[s], value, "").shape)

NextAliased ==
    \E s \in 1..Len(shapes) :
        \/ \E value \in ObjectDefaults : AliasedDefault(s, value)
        \/ AliasedOptional(s)
        \/ \E value \in ObjectCalled : AliasedParse(s, value)
        \/ \E value \in ObjectCalled : AliasedSafeParse(s, value)

SpecAliased == InitAliased /\ [][NextAliased]_vars

\* C23: a parse or safeParse call leaves the shape as it was (its default,
\* its flags, its key and path, its children), and the shape answers every
\* input after the call as it did before it.
C23_ParseLeavesShape ==
    [][call'.op \in {"parse", "safeParse"} =>
          /\ shapes'[call'.recv] = shapes[call'.recv]
          /\ \A v \in ObjectCalled :
                ObjectShape_parse_aliased(shapes'[call'.recv], v, "").out
                    = ObjectShape_parse_aliased(shapes[call'.recv], v, "").out
      ]_vars

(***************************************************************************)
(* Specification SpecSubstituted: a shape whose chain holds one operation  *)
(* is given a default, made optional, and parsed, undefined included.      *)
(***************************************************************************)
MaxSubstituted == 4

\* boolean().transform(negate) of the named revision, enum([true])
\* .transform(negate) of the pipeline revision, any().refine(isTrue) of the
\* array revision, each with the shape it was built from
SubstitutedBuilt ==
    {transform(<<AbstractShape("named", "boolean", "boolean")>>, <<>>, 1, "negate"),
     EnumTransformed,
     refine_array(<<AbstractShape("array", "any", "none")>>, <<>>, 1, "isTrue")}

SubstitutedDefaults == {Bool(TRUE), Bool(FALSE), Str("x")}
SubstitutedInputs == {Undefined, Bool(TRUE), Bool(FALSE), Str("x")}

\* shape.parse(value), by the revision of the shape
parseSubstituted(shape, N, value) ==
    IF shape.rev = "array" THEN parse_array(shape, value, "").out ELSE parseOf(shape, N, value)

InitSubstituted ==
    /\ \E built \in SubstitutedBuilt : shapes = built.shapes /\ nodes = built.nodes
    /\ call = Call("new", 0, "", Undefined, 1, NoOutcome)

SubstitutedModify(op, s, input, built) ==
    /\ Len(built.shapes) <= MaxSubstituted
    /\ ObjectModify(op, s, input, built)

SubstitutedDefault(s, value) ==
    SubstitutedModify("default", s, value,
                      IF shapes[s].rev = "array" THEN default_array(shapes, nodes, s, value)
                      ELSE default(shapes, nodes, s, value))

SubstitutedOptional(s) ==
    SubstitutedModify("optional", s, Undefined,
                      IF shapes[s].rev = "array" THEN optional_array(shapes, nodes, s)
                      ELSE optional(shapes, nodes, s))

SubstitutedParse(s, value) ==
    /\ call' = Call("parse", s, "", value, 0, parseSubstituted(shapes[s], nodes, value))
    /\ UNCHANGED <<shapes, nodes>>

NextSubstituted ==
    \E s \in 1..Len(shapes) :
        \/ \E value \in SubstitutedDefaults : SubstitutedDefault(s, value)
        \/ SubstitutedOptional(s)
        \/ \E value \in SubstitutedInputs : SubstitutedParse(s, value)

SpecSubstituted == InitSubstituted /\ [][NextSubstituted]_vars

\* C24: when parse(undefined) of a shape with a default does not fail for
\* the missing value, the default was substituted and went through the rest
\* of the pipeline: the outcome is the one of parse(default), type test and
\* operations included.
C24_DefaultRunsPipeline ==
    /\ call.op = "parse"
    /\ call.input = Undefined
    /\ shapes[call.recv].default \notin {Undefined, Null}
    /\ ~(call.out.threw /\ call.out.error.code = "REQUIRED")
    => call.out = parseSubstituted(shapes[call.recv], nodes, shapes[call.recv].default)

(***************************************************************************)
(* Properties of SpecComposite: the result of ArrayShape.parse             *)
(***************************************************************************)
\* C25: for an array that parse of an ArrayShape accepts, the result is an
\* array of the same length whose element i is what the element shape's
\* parse returns for element i of the input.
C25_ArrayNormalized ==
    /\ call.op = "parse"
    /\ shapes[call.recv].type = "array"
    /\ call.input.t = "array"
    /\ ~call.out.threw
    => /\ call.out.value.t = "array"
       /\ Len(call.out.value.v) = Len(call.input.v)
       /\ \A i \in 1..Len(call.input.v) :
              LET element == parse_pipeline(shapes[call.recv]._shape, nodes, call.input.v[i])
              IN  ~element.threw /\ call.out.value.v[i] = element.value

(***************************************************************************)
(* Properties of SpecObject: required children                             *)
(***************************************************************************)
\* C26: when parse of an ObjectShape that is not partial and has no default
\* is given an object that lacks a declared key whose child is neither
\* optional nor has a default, parse fails with a missing-property error,
\* whatever the kind of the child.
C26_RequiredChildren ==
    /\ call.op = "parse"
    /\ shapes[call.recv].type = "object"
    /\ call.input.t = "object"
    /\ ~shapes[call.recv]._partial
    /\ shapes[call.recv].default = Undefined
    /\ \E i \in 1..Len(shapes[call.recv]._shape) :
           LET child == shapes[call.recv]._shape[i]
           IN  /\ child.key \notin DOMAIN call.input.v
               /\ ~child.shape.optional
               /\ child.shape.default = Undefined
    => /\ call.out.threw
       /\ \/ call.out.error.code = "MISSING_PROPERTY"
          \/ /\ call.out.error.class = "AggregateError"
             /\ \E k \in 1..Len(call.out.error.errors) :
                    call.out.error.errors[k].code = "MISSING_PROPERTY"

(***************************************************************************)
(* Specification SpecRace: two withPath calls on one shape whose callbacks *)
(* are asynchronous.  A callback runs up to its first await inside the     *)
(* withPath call, is resumed later and then settles its promise; the       *)
(* handler withPath attached with finally() runs when the promise settles. *)
(* call.tasks holds, for each of the two calls, where its callback stands, *)
(* the subkey, the value withPath saved, and what the callback read as the *)
(* shape's place (its _key in abstract-shape.ts, its _path in part_009)    *)
(* each time it ran.                                                       *)
(***************************************************************************)
Tasks == 1..2

Idle == [pc |-> "idle", subkey |-> "", prev |-> <<>>, seen |-> <<>>]

\* what a callback reads as the place of the shape
placeOf(shape) == IF shape.rev = "pipeline" THEN shape.path ELSE <<shape.key>>

\* the place a callback of withPath(subkey, cb) is to read on a shape whose
\* place is `before` when nothing is in flight
ownPlace(shape, before, subkey) ==
    IF shape.rev = "pipeline" THEN Append(before, subkey) ELSE <<subkey>>

InitRace ==
    /\ shapes \in {<<AbstractShape("named", "any", "none")>>,
                    <<AbstractShape("pipeline", "enum", "none")>>}
    /\ nodes = <<>>
    /\ call = Call("new", 0, "", Undefined, 1, NoOutcome) @@ [tasks |-> [k \in Tasks |-> Idle]]

\* withPath(subkey, cb) up to its return.  abstract-shape.ts lines 342-349:
\* prev = this._key; this._key = subkey; cb() runs to its first await and
\* returns a promise; finally() is attached; the key stays.  part_009 lines
\* 580-595: prevPath is a copy; subkey is pushed; cb() runs to its first
\* await; the finally block of the try assigns this._path = prevPath before
\* withPath returns
RaceStart(k, subkey) ==
    /\ call.tasks[k].pc = "idle"
    /\ shapes' = [shapes EXCEPT ![1] =
                     IF @.rev = "pipeline" THEN @ ELSE [@ EXCEPT !.key = subkey]]
    /\ call' = [call EXCEPT !.op = "withPath", !.recv = 1, !.fn = subkey,
                            !.tasks[k] = [pc |-> "pending", subkey |-> subkey,
                                          prev |-> placeOf(shapes[1]),
                                          seen |-> <<ownPlace(shapes[1], placeOf(shapes[1]), subkey)>>]]
    /\ UNCHANGED nodes

\* the callback is resumed after its await and reads the place of the shape
RaceResume(k) ==
    /\ call.tasks[k].pc = "pending"
    /\ call' = [call EXCEPT !.op = "resume", !.recv = 1, !.fn = call.tasks[k].subkey,
                            !.tasks[k].pc = "resumed",
                            !.tasks[k].seen = Append(@, placeOf(shapes[1]))]
    /\ UNCHANGED <<shapes, nodes>>

\* the promise settles and the handler of finally() runs:
\* this._key = prev / this._path = prevPath
RaceSettle(k) ==
    /\ call.tasks[k].pc = "resumed"
    /\ shapes' = [shapes EXCEPT ![1] =
                     IF @.rev = "pipeline" THEN [@ EXCEPT !.path = call.tasks[k].prev]
                     ELSE [@ EXCEPT !.key = call.tasks[k].prev[1]]]
    /\ call' = [call EXCEPT !.op = "settle", !.recv = 1, !.fn = call.tasks[k].subkey,
                            !.tasks[k].pc = "settled"]
    /\ UNCHANGED nodes

NextRace ==
    \E k \in Tasks :
        \/ \E subkey \in Subkeys : RaceStart(k, subkey)
        \/ RaceResume(k)
        \/ RaceSettle(k)

SpecRace == InitRace /\ [][NextRace]_vars

\* the place of the shape as constructed
ConstructedPlace(shape) == placeOf(AbstractShape(shape.rev, shape.type, shape.coerceFn))

\* C27: under every interleaving of two asynchronous withPath calls on one
\* shape, each callback reads its own subkey as the place of the shape every
\* time it runs, and once both promises have settled the shape has the place
\* it had before the first call.
C27_WithPathCallScoped ==
    /\ \A k \in Tasks : \A n \in 1..Len(call.tasks[k].seen) :
           call.tasks[k].seen[n]
               = ownPlace(shapes[1], ConstructedPlace(shapes[1]), call.tasks[k].subkey)
    /\ (\A k \in Tasks : call.tasks[k].pc = "settled") =>
           placeOf(shapes[1]) = ConstructedPlace(shapes[1])

(***************************************************************************)
(* The RecordShape of src/src/libs/shapes/union-shape.ts lines 58-254, on  *)
(* the array revision: parse calls parseWithPath of the key shape and of   *)
(* the value shape for every property.                                     *)
(***************************************************************************)
RecordShape_array(_keyShape, _valueShape) ==
    AbstractShape("array", "record", "none")
        @@ [_keyShape |-> _keyShape, _valueShape |-> _valueShape]

\* the try block of a turn of the for-in loop: parsedKey and parsedValue are
\* what the two parseWithPath calls answer; the value shape is not called
\* when the key shape has thrown
RecordShape_tried(acc, parsedKey, parsedValue) ==
    IF parsedKey.out.threw
    THEN [acc EXCEPT !.shape._keyShape = parsedKey.shape, !.thrown = parsedKey.out.error]
    ELSE IF parsedValue.out.threw
    THEN [acc EXCEPT !.shape._keyShape = parsedKey.shape, !.shape._valueShape = parsedValue.shape,
                     !.thrown = parsedValue.out.error]
    ELSE [acc EXCEPT !.shape._keyShape = parsedKey.shape, !.shape._valueShape = parsedValue.shape,
                     !.result = (PropertyKey(parsedKey.out.value) :> parsedValue.out.value) @@ @]

\* for (const key in input), lines 122-142; a thrown ShapeError ends the loop
RECURSIVE RecordShape_loop(_, _, _, _)
RecordShape_loop(acc, input, keys, currentKey) ==
    IF keys = <<>> \/ acc.thrown # NoErr THEN acc
    ELSE RecordShape_loop(
             RecordShape_tried(acc,
                 parseWithPath(acc.shape._keyShape, Str(Head(keys)), currentKey \o "[key]"),
                 parseWithPath(acc.shape._valueShape, input[Head(keys)],
                               IF currentKey # "" THEN currentKey \o "." \o Head(keys)
                               ELSE Head(keys))),
             input, Tail(keys), currentKey)

RecordShape_looped(looped) ==
    IF looped.thrown # NoErr THEN [out |-> Threw(looped.thrown), shape |-> looped.shape]
    ELSE IF _operate(looped.shape, Obj(looped.result)).ok
    THEN [out |-> Returned(TRUE, _operate(looped.shape, Obj(looped.result)).value, NoErr),
          shape |-> looped.shape]
    ELSE [out |-> Threw(_operate(looped.shape, Obj(looped.result)).err), shape |-> looped.shape]

\* RecordShape.parse, lines 92-145
RecordShape_parse(shape, value) ==
    IF value = Undefined /\ shape.default # Undefined
    THEN [out |-> Returned(TRUE, shape.default, NoErr), shape |-> shape]
    ELSE IF value = Undefined /\ shape.optional
    THEN [out |-> Returned(TRUE, Undefined, NoErr), shape |-> shape]
    ELSE IF value = Null /\ shape.nullable THEN [out |-> Returned(TRUE, Null, NoErr), shape |-> shape]
    ELSE IF value.t # "object" THEN [out |-> Threw(createError("NOT_OBJECT", shape)), shape |-> shape]
    ELSE RecordShape_looped(
             RecordShape_loop([shape |-> shape, result |-> <<>>, thrown |-> NoErr],
                              value.v, ObjectKeys(value.v), shape.key))

(***************************************************************************)
(* Specification SpecRecord: a RecordShape over a key shape any() and a    *)
(* value shape with or without a transform is made optional or nullable    *)
(* and parsed.                                                             *)
(***************************************************************************)
\* any(), boolean(), any().transform(negate), any().default(true).transform(negate)
RecordValues ==
    LET any == AbstractShape("array", "any", "none")
        defaulted == default_array(<<any>>, <<>>, 1, Bool(TRUE)).shapes[1]
    IN  {any, AbstractShape("array", "boolean", "none"),
         transform_array(<<any>>, <<>>, 1, "negate").shapes[2],
         transform_array(<<defaulted>>, <<>>, 1, "negate").shapes[2]}

RecordInputs ==
    {Undefined, Null, Str("x")}
    \cup {Obj(props) : props \in UNION {[keys -> {Undefined, Bool(TRUE), Bool(FALSE)}] :
                            keys \in SUBSET {PropertyNames[i] : i \in 1..Len(PropertyNames)}}}

InitRecord ==
    /\ shapes \in {<<RecordShape_array(AbstractShape("array", "any", "none"), v)>> :
                       v \in RecordValues}
    /\ nodes = <<>>
    /\ call = Call("new", 0, "", Undefined, 1, NoOutcome)

RecordOptional(s) == ObjectModify("optional", s, Undefined, optional_array(shapes, nodes, s))

RecordNullable(s) == ObjectModify("nullable", s, Undefined, nullable_array(shapes, nodes, s))

RecordParse(s, value) ==
    AliasedCalled("parse", s, value, RecordShape_parse(shapes[s], value).out,
                  RecordShape_parse(shapes[s], value).shape)

NextRecord ==
    \E s \in 1..Len(shapes) :
        \/ RecordOptional(s)
        \/ RecordNullable(s)
        \/ \E value \in RecordInputs : RecordParse(s, value)

SpecRecord == InitRecord /\ [][NextRecord]_vars

\* C28: in the result of parse of a RecordShape every property holds what
\* the value shape's own parse returns for the property of the input, its
\* chain applied once: f(v) for a value v, f(default) for an undefined
\* value of a shape with a default.
C28_OperationsOncePerValue ==
    /\ call.op = "parse"
    /\ shapes[call.recv].type = "record"
    /\ call.input.t = "object"
    /\ ~call.out.threw
    => /\ call.out.value.t = "object"
       /\ DOMAIN call.out.value.v = DOMAIN call.input.v
       /\ \A k \in DOMAIN call.input.v :
              LET v == IF call.input.v[k] = Undefined /\ shapes[call.recv]._valueShape.default # Undefined
                       THEN shapes[call.recv]._valueShape.default
                       ELSE call.input.v[k]
              IN  call.out.value.v[k]
                      = _operate(shapes[call.recv]._valueShape, v).value

(***************************************************************************)
(* The place of coerce() in a chain of modifier calls, on SpecCoerce       *)
(***************************************************************************)
\* s.optional() by the revision of the shape
optionalOf(S, N, s) ==
    IF S[s].rev = "array" THEN optional_array(S, N, s) ELSE optional(S, N, s)

\* s.optional().coerce() and s.coerce().optional()
coerceOf(built, N) == coerce(built.shapes, N, built.ret)
optionalOfBuilt(built, N) == optionalOf(built.shapes, N, built.ret)

\* the two built shapes answer every input alike
SameOutcomes(a, b, N) ==
    \A value \in CoerceInputs :
        parseCoerced(a.shapes, N, a.ret, value) = parseCoerced(b.shapes, N, b.ret, value)

\* C29: coerce() takes effect on the shape it is called on wherever it
\* stands in the chain of modifier calls: for every shape s,
\* s.optional().coerce() and s.coerce().optional() answer every input
\* alike, and a call of coerce() leaves what every other shape answers to
\* every input as it was.
C29_CoerceOwnShape ==
    [][/\ \A s \in 1..Len(shapes) :
              SameOutcomes(coerceOf(optionalOf(shapes, nodes, s), nodes),
                           optionalOfBuilt(coerce(shapes, nodes, s), nodes), nodes)
       /\ call'.op = "coerce" =>
              \A t \in (1..Len(shapes)) \ {call'.recv} : \A value \in CoerceInputs :
                  parseCoerced(shapes', nodes', t, value) = parseCoerced(shapes, nodes, t, value)
      ]_vars

(***************************************************************************)
(* The chains of Spec end                                                  *)
(***************************************************************************)
\* following next from node op comes to the end within `steps` steps
RECURSIVE EndsWithin(_, _, _)
EndsWithin(N, op, steps) ==
    IF op = 0 THEN TRUE
    ELSE IF steps = 0 THEN FALSE
    ELSE EndsWithin(N, N[op].next, steps - 1)

\* C30: after any sequence of modifier calls the chain of every shape,
\* followed from first through next, comes to its end within as many steps
\* as there are nodes: it is finite and visits no node twice, so the
\* traversal of parse terminates.
C30_ChainsEnd ==
    /\ \A s \in 1..Len(shapes) :
           /\ shapes[s].first \in 0..Len(nodes)
           /\ EndsWithin(nodes, shapes[s].first, Len(nodes))
    /\ \A i \in 1..Len(nodes) : nodes[i].next \in 0..Len(nodes)

\* a shape whose chain of two nodes starts at a node it shares with another
\* shape has been parsed
C30_Witness ==
    /\ call.op = "parse"
    /\ shapes[call.recv].first # 0
    /\ nodes[shapes[call.recv].first].next # 0
    /\ \E t \in (1..Len(shapes)) \ {call.recv} : shapes[t].first = shapes[call.recv].first

====
